---- MODULE Spec2Model ----
(***************************************************************************)
(* Verification model of the venue crawler (src/src/main.js).              *)
(*                                                                         *)
(* Strings are sequences of one-character strings, so that the regular     *)
(* expressions of the source are modelled by what they do to a string.     *)
(* null/undefined is the one-element sequence Null, which is no string.    *)
(***************************************************************************)
EXTENDS Integers, Sequences, FiniteSets, TLC

\* ------------------------------------------------------------------------
\* Characters and JavaScript string primitives
\* ------------------------------------------------------------------------
Null == <<"null">>

LowerLetters == <<"a","b","c","d","e","f","g","h","i","j","k","l","m",
                  "n","o","p","q","r","s","t","u","v","w","x","y","z">>
UpperLetters == <<"A","B","C","D","E","F","G","H","I","J","K","L","M",
                  "N","O","P","Q","R","S","T","U","V","W","X","Y","Z">>
Digits == {"0","1","2","3","4","5","6","7","8","9"}
\* "ndash" and "mdash" stand for the characters U+2013 and U+2014
Dashes == {"-", "ndash", "mdash"}

IsSpace(c) == c \in {" ", "\t", "\n"}
IsDigit(c) == c \in Digits
UpperSet == { UpperLetters[k] : k \in 1..26 }
LowerSet == { LowerLetters[k] : k \in 1..26 }
LowerOf == [c \in UpperSet |-> LowerLetters[CHOOSE k \in 1..26 : UpperLetters[k] = c]]
IsUpper(c) == c \in UpperSet
IsLower(c) == c \in LowerSet
IsWordChar(c) == IsUpper(c) \/ IsLower(c) \/ IsDigit(c) \/ c = "_"

\* String.prototype.toLowerCase, one character
LowerChar(c) ==
    IF IsUpper(c) THEN LowerOf[c] ELSE c

toLowerCase(s) == [k \in 1..Len(s) |-> LowerChar(s[k])]

\* JavaScript truthiness of a string-or-null value
Truthy(s) == s # Null /\ s # <<>>

\* s.slice(i - 1), 1-based: the suffix of s that starts at position i
From(s, i) == IF i > Len(s) THEN <<>> ELSE SubSeq(s, i, Len(s))
\* the prefix of s that ends before position i
Upto(s, i) == IF i <= 1 THEN <<>> ELSE SubSeq(s, 1, i - 1)

\* first position >= i of s that holds no whitespace (Len(s) + 1 if none)
RECURSIVE SkipWs(_, _)
SkipWs(s, i) == IF i <= Len(s) /\ IsSpace(s[i]) THEN SkipWs(s, i + 1) ELSE i

\* first position p <= i such that s[p .. i-1] is all whitespace
RECURSIVE BackWs(_, _)
BackWs(s, i) == IF i > 1 /\ IsSpace(s[i - 1]) THEN BackWs(s, i - 1) ELSE i

\* String.prototype.trim
RECURSIVE TrimRight(_)
TrimRight(s) ==
    IF s # <<>> /\ IsSpace(s[Len(s)]) THEN TrimRight(SubSeq(s, 1, Len(s) - 1)) ELSE s
trim(s) == TrimRight(From(s, SkipWs(s, 1)))

\* the word w (lower case) stands at position i of s, whatever the case (flag i)
AtCI(s, i, w) ==
    /\ i >= 1
    /\ i + Len(w) - 1 <= Len(s)
    /\ \A k \in 1..Len(w) : LowerChar(s[i + k - 1]) = w[k]

\* \b at position i: between s[i-1] and s[i], exactly one is a word character
WordBoundary(s, i) ==
    LET before == i > 1 /\ i - 1 <= Len(s) /\ IsWordChar(s[i - 1])
        after  == i >= 1 /\ i <= Len(s) /\ IsWordChar(s[i])
    IN  before # after

\* s.replace(/\s+/g, ' ')
RECURSIVE CollapseWs(_)
CollapseWs(s) ==
    IF s = <<>> THEN <<>>
    ELSE IF IsSpace(s[1]) THEN <<" ">> \o CollapseWs(From(s, SkipWs(s, 1)))
    ELSE <<s[1]>> \o CollapseWs(Tail(s))

\* position of the first k >= i with s[k] = c (0 if none)
RECURSIVE IndexOfFrom(_, _, _)
IndexOfFrom(s, c, i) ==
    IF i > Len(s) THEN 0 ELSE IF s[i] = c THEN i ELSE IndexOfFrom(s, c, i + 1)

IsAmPm(s, i) == AtCI(s, i, <<"a","m">>) \/ AtCI(s, i, <<"p","m">>)
TwoDigits(s, i) == i + 1 <= Len(s) /\ IsDigit(s[i]) /\ IsDigit(s[i + 1])

\* ------------------------------------------------------------------------
\* cleanArtist (Text Normalizer), one operator per replace() of the source
\* ------------------------------------------------------------------------
PresentsWords == { <<"p","r","e","s","e","n","t","s">>,
                   <<"p","r","e","s","e","n","t">>,
                   <<"p","r","e","s",".">> }

\* v.replace(/^[^:]+\s+(?:Presents?|Pres\.):\s*/i, ''): the keyword must end
\* at the first colon, after one character or more and whitespace
StripPresents(v) ==
    LET c == IndexOfFrom(v, ":", 1)
    IN  IF c # 0 /\ \E w \in PresentsWords :
                        /\ c - Len(w) >= 3
                        /\ AtCI(v, c - Len(w), w)
                        /\ IsSpace(v[c - Len(w) - 1])
        THEN From(v, SkipWs(v, c + 1))
        ELSE v

\* end (exclusive) of \d{1,2}(:\d{2})?\s*(am|pm)? matched greedily from the digit at j
TimeEnd(v, j) ==
    LET d == IF TwoDigits(v, j) THEN j + 2 ELSE j + 1
        c == IF d <= Len(v) /\ v[d] = ":" /\ TwoDigits(v, d + 1) THEN d + 3 ELSE d
        w == SkipWs(v, c)
    IN  IF IsAmPm(v, w) THEN w + 2 ELSE w

RECURSIVE FirstAtTime(_, _)
FirstAtTime(v, i) ==
    IF i > Len(v) THEN 0
    ELSE IF v[i] = "@" /\ SkipWs(v, i + 1) <= Len(v) /\ IsDigit(v[SkipWs(v, i + 1)])
         THEN i
         ELSE FirstAtTime(v, i + 1)

\* v.replace(/@\s*\d{1,2}(:\d{2})?\s*(am|pm)?/i, ''): the first match only
CutAtTime(v, i) ==
    IF i = 0 THEN v ELSE Upto(v, i) \o From(v, TimeEnd(v, SkipWs(v, i + 1)))
StripAtTime(v) == CutAtTime(v, FirstAtTime(v, 1))

\* The tail \d{1,2}(:\d{2})?\s*(am|pm)?\b backtracks until \b holds: the
\* alternatives in the order the matcher tries them, 0 when none ends at a \b
TryAmPm(v, w) ==
    IF IsAmPm(v, w) /\ WordBoundary(v, w + 2) THEN w + 2
    ELSE IF WordBoundary(v, w) THEN w ELSE 0

\* the first of two ways to match that succeeds (0: no match)
NonZeroOr(a, b) == IF a # 0 THEN a ELSE b

RECURSIVE TryWs(_, _, _)
TryWs(v, lo, w) ==
    NonZeroOr(TryAmPm(v, w), IF w <= lo THEN 0 ELSE TryWs(v, lo, w - 1))

TryColon(v, d) ==
    NonZeroOr(IF d <= Len(v) /\ v[d] = ":" /\ TwoDigits(v, d + 1)
              THEN TryWs(v, d + 3, SkipWs(v, d + 3))
              ELSE 0,
              TryWs(v, d, SkipWs(v, d)))

TryDigits(v, j) ==
    NonZeroOr(IF TwoDigits(v, j) THEN TryColon(v, j + 2) ELSE 0, TryColon(v, j + 1))

AtWordTimeAt(v, i) ==
    IF /\ WordBoundary(v, i)
       /\ AtCI(v, i, <<"a","t">>)
       /\ i + 2 <= Len(v) /\ IsSpace(v[i + 2])
       /\ SkipWs(v, i + 2) <= Len(v) /\ IsDigit(v[SkipWs(v, i + 2)])
    THEN TryDigits(v, SkipWs(v, i + 2))
    ELSE 0

RECURSIVE FirstAtWordTime(_, _)
FirstAtWordTime(v, i) ==
    IF i > Len(v) THEN 0
    ELSE IF AtWordTimeAt(v, i) # 0 THEN i ELSE FirstAtWordTime(v, i + 1)

\* v.replace(/\bat\s+\d{1,2}(:\d{2})?\s*(am|pm)?\b/i, ''): the first match only
CutAtWordTime(v, i) == IF i = 0 THEN v ELSE Upto(v, i) \o From(v, AtWordTimeAt(v, i))
StripAtWordTime(v) == CutAtWordTime(v, FirstAtWordTime(v, 1))

\* v without its tail from position i on (i = 0: no match, v as it is)
CutFrom(v, i) == IF i = 0 THEN v ELSE Upto(v, i)

RECURSIVE FirstDashTail(_, _)
FirstDashTail(v, i) ==
    IF i >= Len(v) THEN 0
    ELSE IF v[i] \in Dashes /\ \A k \in (i + 1)..Len(v) : v[k] \notin {",", "(", ")"}
         THEN i
         ELSE FirstDashTail(v, i + 1)

\* v.replace(/[\-–—]\s*[^,()]+$/g, ''): from the first dash whose
\* rest holds no comma and no parenthesis
StripDashTail(v) == CutFrom(v, FirstDashTail(v, 1))

\* v.replace(/\(.*?\)/g, '')
RECURSIVE StripParens(_)
StripParens(v) ==
    IF v = <<>> THEN <<>>
    ELSE LET j == IndexOfFrom(v, ")", 2)
         IN  IF v[1] = "(" /\ j # 0 /\ \A k \in 2..j : v[k] # "\n"
             THEN StripParens(From(v, j + 1))
             ELSE <<v[1]>> \o StripParens(Tail(v))

TourWordAt(v, k) ==
    /\ AtCI(v, k, <<"t","o","u","r">>)
    /\ WordBoundary(v, k)
    /\ WordBoundary(v, k + 4)
    /\ \A n \in (k + 4)..Len(v) : v[n] # "\n"

RECURSIVE FirstTourColon(_, _)
FirstTourColon(v, i) ==
    IF i > Len(v) THEN 0
    ELSE IF v[i] = ":" /\ \E k \in (i + 1)..Len(v) :
                              /\ TourWordAt(v, k)
                              /\ \A n \in (i + 1)..(k - 1) : v[n] # ":"
         THEN i
         ELSE FirstTourColon(v, i + 1)

\* v.replace(/:\s*[^:]*\bTour\b.*$/i, '')
StripTourTail(v) == CutFrom(v, FirstTourColon(v, 1))

\* v.replace(/[‘’“”]/g, "'")
CurlyQuotes == {"lsquo", "rsquo", "ldquo", "rdquo"}
FixQuotes(v) == [k \in 1..Len(v) |-> IF v[k] \in CurlyQuotes THEN "'" ELSE v[k]]

\* v.replace(/^[,;:\s]+|[,;:\s]+$/g, '')
IsEdgePunct(c) == c \in {",", ";", ":"} \/ IsSpace(c)
RECURSIVE TrimPunctLeft(_)
TrimPunctLeft(v) ==
    IF v # <<>> /\ IsEdgePunct(v[1]) THEN TrimPunctLeft(Tail(v)) ELSE v
RECURSIVE TrimPunctRight(_)
TrimPunctRight(v) ==
    IF v # <<>> /\ IsEdgePunct(v[Len(v)])
    THEN TrimPunctRight(SubSeq(v, 1, Len(v) - 1)) ELSE v
\* a cleaner without the last replace()
KeepEdges(v) == v

TrimPunct(v) == TrimPunctRight(TrimPunctLeft(v))

CleanSteps(s) ==
    TrimPunct(trim(CollapseWs(FixQuotes(StripTourTail(StripParens(
        StripDashTail(StripAtWordTime(StripAtTime(StripPresents(s))))))))))

\* if (!v) return null; return v
NullIfEmpty(v) == IF v = <<>> THEN Null ELSE v

cleanArtist(s) == IF ~Truthy(s) THEN Null ELSE NullIfEmpty(CleanSteps(s))

\* ------------------------------------------------------------------------
\* String.prototype.split on an alternation of delimiters
\* ------------------------------------------------------------------------
\* One alternative: lead whitespace (\s+ "plus", \s* "star", "none"), a word
\* matched whatever the case, an optional dot, trailing whitespace likewise
Delim(lead, word, optDot, trailWs) ==
    [lead |-> lead, word |-> word, optDot |-> optDot, trail |-> trailWs]

\* end (exclusive) of alternative d matched at position i of s, 0 if it fails
MatchAlt(s, i, d) ==
    LET w == IF d.lead = "none" THEN i ELSE SkipWs(s, i)
        e == w + Len(d.word)
        f == IF d.optDot /\ e <= Len(s) /\ s[e] = "." THEN e + 1 ELSE e
    IN  IF /\ i <= Len(s)
           /\ d.lead = "plus" => IsSpace(s[i])
           /\ AtCI(s, w, d.word)
           /\ d.trail = "plus" => (f <= Len(s) /\ IsSpace(s[f]))
        THEN IF d.trail = "none" THEN f ELSE SkipWs(s, f)
        ELSE 0

\* the alternatives are tried in order at each position
RECURSIVE MatchDelim(_, _, _)
MatchDelim(s, i, alts) ==
    IF alts = <<>> THEN 0
    ELSE NonZeroOr(MatchAlt(s, i, Head(alts)), MatchDelim(s, i, Tail(alts)))

\* the pieces of s from position start on; i is the position looked at, and
\* e the end of the delimiter found there (0 if none)
RECURSIVE SplitFrom(_, _, _, _)
RECURSIVE SplitStep(_, _, _, _, _)
SplitStep(s, start, i, alts, e) ==
    IF e # 0 THEN << SubSeq(s, start, i - 1) >> \o SplitFrom(s, e, e, alts)
    ELSE SplitFrom(s, start, i + 1, alts)
SplitFrom(s, start, i, alts) ==
    IF i > Len(s) THEN << From(s, start) >>
    ELSE SplitStep(s, start, i, alts, MatchDelim(s, i, alts))

split(s, alts) == SplitFrom(s, 1, 1, alts)

\* parts.map(p => p.trim()).filter(Boolean)
RECURSIVE TrimAndFilter(_)
TrimAndFilter(parts) ==
    IF parts = <<>> THEN <<>>
    ELSE IF trim(Head(parts)) = <<>> THEN TrimAndFilter(Tail(parts))
    ELSE << trim(Head(parts)) >> \o TrimAndFilter(Tail(parts))

W_with == <<"w","i","t","h">>
W_feat == <<"f","e","a","t">>
W_featuring == <<"f","e","a","t","u","r","i","n","g">>
W_and == <<"a","n","d">>

\* /,|\s+with\s+|\s+feat\.?\s+|\s+featuring\s+|\s+&\s+|\s+and\s+|\s*\/\s*|\s*\+\s*/i
SplitPartsDelims ==
    << Delim("none", <<",">>, FALSE, "none"),
       Delim("plus", W_with, FALSE, "plus"),
       Delim("plus", W_feat, TRUE, "plus"),
       Delim("plus", W_featuring, FALSE, "plus"),
       Delim("plus", <<"&">>, FALSE, "plus"),
       Delim("plus", W_and, FALSE, "plus"),
       Delim("star", <<"/">>, FALSE, "star"),
       Delim("star", <<"+">>, FALSE, "star") >>

\* first "@" at or after i that whitespace and then a digit follow (0 if none)
RECURSIVE FirstAtDigit(_, _)
FirstAtDigit(s, i) ==
    IF i > Len(s) THEN 0
    ELSE IF s[i] = "@" /\ SkipWs(s, i + 1) <= Len(s) /\ IsDigit(s[SkipWs(s, i + 1)])
         THEN i
         ELSE FirstAtDigit(s, i + 1)

\* s.replace(/\s*@\s*\d.*$/, '')
StripAtTail(s) ==
    LET i == FirstAtDigit(s, 1)
    IN  IF i = 0 \/ \E n \in i..Len(s) : s[n] = "\n" THEN s ELSE Upto(s, BackWs(s, i))

\* s.replace(/\s*\(.*?\)\s*/g, '')
RECURSIVE StripParensWs(_)
StripParensWs(s) ==
    IF s = <<>> THEN <<>>
    ELSE LET o == SkipWs(s, 1)
             j == IndexOfFrom(s, ")", o + 1)
         IN  IF o <= Len(s) /\ s[o] = "(" /\ j # 0 /\ \A k \in o..j : s[k] # "\n"
             THEN StripParensWs(From(s, SkipWs(s, j + 1)))
             ELSE <<s[1]>> \o StripParensWs(Tail(s))

\* normalizeTitle of the Record Normalizer
normalizeTitle(s) == trim(StripParensWs(StripAtTail(IF s = Null THEN <<>> ELSE s)))

\* splitParts (Name Splitter)
splitParts(s) == TrimAndFilter(split(normalizeTitle(s), SplitPartsDelims))

\* /,|\s+and\s+|\s+&\s+|\s+with\s+|\s*\/\s*/i
ParseSupportsDelims ==
    << Delim("none", <<",">>, FALSE, "none"),
       Delim("plus", W_and, FALSE, "plus"),
       Delim("plus", <<"&">>, FALSE, "plus"),
       Delim("plus", W_with, FALSE, "plus"),
       Delim("star", <<"/">>, FALSE, "star") >>

\* parseSupports of mohawkAustin
parseSupports(text) ==
    IF ~Truthy(text) THEN <<>> ELSE TrimAndFilter(split(text, ParseSupportsDelims))

\* dedupeKey, applied to a row's artistName
dedupeKey(artistName) ==
    CollapseWs(toLowerCase(IF Truthy(artistName) THEN artistName ELSE <<>>))

\* ------------------------------------------------------------------------
\* Record Normalizer and Deduplicator of requestHandler
\* ------------------------------------------------------------------------
\* undefined / null of a url or an id.  A date is a string like a name, Null
\* when absent; a date whose characters do not matter is written as one token.
NoVal == "none"

Range(q) == { q[k] : k \in 1..Len(q) }

\* a || b on strings
OrElse(a, b) == IF Truthy(a) THEN a ELSE b
\* a || b on urls, dates and ids
OrElseVal(a, b) == IF a # NoVal THEN a ELSE b

\* Set.prototype.add on an insertion-ordered Set kept as a sequence
SetAdd(q, x) == IF x \in Range(q) THEN q ELSE Append(q, x)

\* cleanArtist(x) || x
CleanOrRaw(x) == OrElse(cleanArtist(x), x)

\* for (const s of item.supportingActs) if (s) supports.add(cleanArtist(s) || s)
RECURSIVE AddSupports(_, _)
AddSupports(acc, acts) ==
    IF acts = <<>> THEN acc
    ELSE AddSupports(
             IF Truthy(Head(acts))
             THEN SetAdd(acc, CleanOrRaw(Head(acts)))
             ELSE acc,
             Tail(acts))

\* for (let i = 1; i < headParts.length; i++) supports.add(cleanArtist(headParts[i]) || headParts[i])
RECURSIVE AddHeadParts(_, _)
AddHeadParts(acc, parts) ==
    IF parts = <<>> THEN acc
    ELSE AddHeadParts(SetAdd(acc, CleanOrRaw(Head(parts))),
                      Tail(parts))

\* headParts.slice(1)
Rest(headParts) == IF headParts = <<>> THEN <<>> ELSE Tail(headParts)

\* the Set of supports of one item, in insertion order
SupportsOf(item) ==
    AddHeadParts(AddSupports(<<>>, item.supportingActs), Rest(splitParts(item.headliner)))

\* const mainHeadlinerRaw = headParts[0] || item.headliner
MainHeadlinerRaw(headParts, headliner) ==
    IF headParts # <<>> THEN headParts[1] ELSE headliner

\* const mainHeadliner = cleanArtist(mainHeadlinerRaw) || mainHeadlinerRaw
MainHeadliner(item) ==
    CleanOrRaw(MainHeadlinerRaw(splitParts(item.headliner), item.headliner))

\* One output row.  scrapedAt (the wall clock) is left out; "item" is the
\* position in rawItems of the RawEvent the row was made from.
Row(base, role, name, k) ==
    [venueId |-> base.venueId, venueParserId |-> base.venueParserId,
     sourceUrl |-> base.sourceUrl, eventDateRaw |-> base.eventDateRaw,
     role |-> role, artistName |-> name, item |-> k]

\* a base that takes the venue from the parser key
BaseOfParser(item, req, parserKey) ==
    [venueId |-> parserKey, venueParserId |-> parserKey,
     sourceUrl |-> OrElseVal(item.sourceUrl, req.url),
     eventDateRaw |-> item.eventDateRaw]

Base(item, req, parserKey) ==
    [venueId |-> req.venueId, venueParserId |-> parserKey,
     sourceUrl |-> OrElseVal(item.sourceUrl, req.url),
     eventDateRaw |-> item.eventDateRaw]

\* support rows: for (const name of Array.from(supports)) { if (!name) continue; ... }
RECURSIVE SupportRows(_, _, _)
SupportRows(base, names, k) ==
    IF names = <<>> THEN <<>>
    ELSE (IF Truthy(Head(names)) THEN << Row(base, "support", Head(names), k) >> ELSE <<>>)
         \o SupportRows(base, Tail(names), k)

\* the rows of one RawEvent: the callback of rawItems.flatMap
ItemRows(item, k, req, parserKey) ==
    LET base == Base(item, req, parserKey)
    IN  IF Truthy(item.headliner)
        THEN << Row(base, "headliner", MainHeadliner(item), k) >>
             \o SupportRows(base, SupportsOf(item), k)
        ELSE IF Truthy(item.artistName)
        THEN << Row(base, IF item.role # NoVal THEN item.role ELSE "unknown",
                    CleanOrRaw(item.artistName), k) >>
        ELSE <<>>

RECURSIVE NormalizeFrom(_, _, _, _)
NormalizeFrom(rawItems, k, req, parserKey) ==
    IF k > Len(rawItems) THEN <<>>
    ELSE ItemRows(rawItems[k], k, req, parserKey)
         \o NormalizeFrom(rawItems, k + 1, req, parserKey)

\* normalizedRows = rawItems.flatMap(...)
NormalizedRows(rawItems, req, parserKey) == NormalizeFrom(rawItems, 1, req, parserKey)

\* the loop over normalizedRows with the Set seen
RECURSIVE DedupeFrom(_, _)
DedupeFrom(rows, seen) ==
    IF rows = <<>> THEN <<>>
    ELSE IF dedupeKey(Head(rows).artistName) \in seen
         THEN DedupeFrom(Tail(rows), seen)
         ELSE << Head(rows) >>
              \o DedupeFrom(Tail(rows), seen \cup {dedupeKey(Head(rows).artistName)})

\* a dedup that keeps the last row of each key, as Map.set would
KeepLastRows(rows) ==
    LET last == { k \in 1..Len(rows) :
                    \A j \in (k + 1)..Len(rows) :
                        dedupeKey(rows[j].artistName) # dedupeKey(rows[k].artistName) }
        nth(i) == CHOOSE k \in last : Cardinality({ j \in last : j <= k }) = i
    IN  [i \in 1..Cardinality(last) |-> rows[nth(i)]]

UniqueRows(rows) == DedupeFrom(rows, {})

\* a RawEvent as the parsers of main.js build it (none sets artistName or role)
RawEvent(headliner, supportingActs, eventDateRaw, sourceUrl) ==
    [headliner |-> headliner, supportingActs |-> supportingActs,
     eventDateRaw |-> eventDateRaw, sourceUrl |-> sourceUrl,
     artistName |-> Null, role |-> NoVal]

\* ------------------------------------------------------------------------
\* Requests and the parser registry
\* ------------------------------------------------------------------------
\* the own keys of venueParsers
Registry == {"mohawkAustin", "comeAndTakeItEvent", "continentalClubAustin",
             "continentalClubEvent", "parishAustin", "parishAustinEvent",
             "empireAtAustin", "empireAtAustinEvent", "emosAustin", "scootInn",
             "stubbsAustin", "stubbsAustinEvent"}

\* venueParsers is an object literal: a key it does not own is looked up on
\* Object.prototype.  "constructor" finds the function Object, which returns
\* its argument; "toString" finds a function that returns a string.
InheritedKeys == {"constructor", "toString"}

\* const parserKey = parserId || venueId
ParserKey(req) == IF req.parserId # NoVal THEN req.parserId ELSE req.venueId

\* what venueParsers[parserKey] evaluates to
Lookup(key) ==
    IF key \in Registry THEN "parser"
    ELSE IF key \in InheritedKeys THEN "inherited"
    ELSE "undefined"

Request(url, venueId, parserId, calendarTitle, calendarDateText) ==
    [url |-> url, venueId |-> venueId, parserId |-> parserId,
     calendarTitle |-> calendarTitle, calendarDateText |-> calendarDateText,
     retryCount |-> 0]

\* one element of startRequests
StartRequest(v) ==
    Request(v.startUrl, v.id, IF v.parserId # NoVal THEN v.parserId ELSE v.id,
            Null, Null)

Venue(id, startUrl, parserId) == [id |-> id, startUrl |-> startUrl, parserId |-> parserId]

\* venue descriptors of the input: venues of the default list, and venues
\* whose parser key is not registered
Venues ==
    { Venue("mohawkAustin", "https://mohawkaustin.com/", NoVal),
      Venue("continentalClubAustin", "https://continentalclub.com/austin/", NoVal),
      Venue("parishAustin", "https://parishaustin.com/calendar/", NoVal),
      Venue("empireAtAustin", "https://empireatx.com/calendar/", "empireAtAustin"),
      Venue("stubbsAustin", "https://stubbsaustin.com/concert-listings/", NoVal),
      Venue("emosAustin", "https://www.emosaustin.com/shows/", NoVal),
      Venue("scootInn", "https://www.scootinnaustin.com/shows/", NoVal),
      Venue("antones", "https://antonesnightclub.com/calendar/", NoVal),
      Venue("comeAndTakeIt", "https://comeandtakeitproductions.com/calendar/",
            "comeAndTakeItEvent"),
      Venue("parishAustin", "https://parishaustin.com/calendar/", "parishAustn"),
      Venue(NoVal, "https://example.com/", NoVal),
      Venue("constructor", "https://example.com/", NoVal),
      Venue("toString", "https://example.com/", NoVal) }

\* all sequences over S of length at most n
SeqUpTo(S, n) == UNION { [1..k -> S] : k \in 0..n }

\* ------------------------------------------------------------------------
\* Calendar parsers: parishAustin, empireAtAustin, stubbsAustin
\* ------------------------------------------------------------------------
HasAlnum(text) == \E k \in 1..Len(text) : IsUpper(text[k]) \/ IsLower(text[k]) \/ IsDigit(text[k])

\* the $$eval callback of parishAustin and empireAtAustin over the anchors
\* a[href*="/events/"], each given by its textContent and its resolved href
RECURSIVE MecLinks(_, _)
MecLinks(anchors, seen) ==
    IF anchors = <<>> THEN <<>>
    ELSE LET a == Head(anchors)
             text == trim(a.text)
             key == <<a.url, text>>
         IN  IF text = <<>> \/ ~HasAlnum(text) \/ Len(text) < 3 \/ key \in seen
             THEN MecLinks(Tail(anchors), seen)
             ELSE << [title |-> text, url |-> a.url] >>
                  \o MecLinks(Tail(anchors), seen \cup {key})

\* the $$eval callback of stubbsAustin over the anchors a[href*="/tm-event/"]
RECURSIVE TmLinks(_, _)
TmLinks(anchors, seen) ==
    IF anchors = <<>> THEN <<>>
    ELSE LET a == Head(anchors)
             title == trim(a.text)
             key == <<a.url, title>>
         IN  IF title = <<>> \/ a.url = NoVal \/ key \in seen
             THEN TmLinks(Tail(anchors), seen)
             ELSE << [title |-> title, url |-> a.url] >>
                  \o TmLinks(Tail(anchors), seen \cup {key})

\* detail requests under a key that venueParsers does not have
DetailRequestsUnregistered(events, req, parserId) ==
    [k \in 1..Len(events) |->
        Request(events[k].url, req.venueId, parserId \o "s",
                OrElse(events[k].title, Null), Null)]

\* events.map(ev => ({ url, userData: { venueId, parserId, calendarTitle } }))
DetailRequests(events, req, parserId) ==
    [k \in 1..Len(events) |->
        Request(events[k].url, req.venueId, parserId,
                OrElse(events[k].title, Null), Null)]

\* events.map(ev => ({ eventDateRaw: null, headliner: ev.title, supportingActs: [], sourceUrl: ev.url }))
\* (stubbsAustin writes ev.title || ev.url; its $$eval keeps no event with an
\* empty title)
SummaryEvents(events) ==
    [k \in 1..Len(events) |-> RawEvent(events[k].title, <<>>, Null, events[k].url)]

\* what a parser call did: the requests it gave to crawler.addRequests, the
\* RawEvents it returned, and the events it had found on the page
Parsed(found, reqs, rawItems) == [found |-> found, reqs |-> reqs, rawItems |-> rawItems]

\* a calendar parser that returns its summaries whether or not it enqueued
CalendarResultBoth(events, req, hasCrawler, parserId) ==
    Parsed(events,
           IF hasCrawler THEN DetailRequests(events, req, parserId) ELSE <<>>,
           SummaryEvents(events))

\* the tail of the three calendar parsers, after the $$eval
CalendarResult(events, req, hasCrawler, parserId) ==
    IF events = <<>> THEN Parsed(events, <<>>, <<>>)
    ELSE IF hasCrawler /\ Len(DetailRequests(events, req, parserId)) > 0
    THEN Parsed(events, DetailRequests(events, req, parserId), <<>>)
    ELSE Parsed(events, <<>>, SummaryEvents(events))

parishAustin(anchors, req, hasCrawler) ==
    CalendarResult(MecLinks(anchors, {}), req, hasCrawler, "parishAustinEvent")

empireAtAustin(anchors, req, hasCrawler) ==
    CalendarResult(MecLinks(anchors, {}), req, hasCrawler, "empireAtAustinEvent")

stubbsAustin(anchors, req, hasCrawler) ==
    CalendarResult(TmLinks(anchors, {}), req, hasCrawler, "stubbsAustinEvent")

\* ------------------------------------------------------------------------
\* mohawkAustin: single-phase list parser
\* ------------------------------------------------------------------------
\* the $$eval callback over the cards .list-view-details; a card is given by
\* the text of its headliner element (Null if it has none), the text of its
\* supports element, its link and its date
RECURSIVE MohawkCards(_, _)
MohawkCards(cards, seen) ==
    IF cards = <<>> THEN <<>>
    ELSE LET c == Head(cards)
             headliner == IF c.headliner = Null THEN Null ELSE trim(c.headliner)
             key == <<c.url, headliner>>
         IN  IF ~Truthy(headliner) \/ key \in seen
             THEN MohawkCards(Tail(cards), seen)
             ELSE << [headliner |-> headliner, supportsText |-> trim(c.supportsText),
                      url |-> c.url, dateText |-> c.dateText] >>
                  \o MohawkCards(Tail(cards), seen \cup {key})

\* normalized = events.map(ev => ({ headliner: ev.headliner || null, ... }))
MohawkRawEvents(events, req) ==
    Parsed(events, <<>>,
           [k \in 1..Len(events) |->
               RawEvent(OrElse(events[k].headliner, Null),
                        parseSupports(events[k].supportsText),
                        OrElse(events[k].dateText, Null),
                        OrElseVal(events[k].url, req.url))])

mohawkAustin(cards, req) == MohawkRawEvents(MohawkCards(cards, {}), req)

\* ------------------------------------------------------------------------
\* continentalClubAustin, stage 1: the Timely JSON API
\* ------------------------------------------------------------------------
\* what one extraction stage did: whether it threw (and was caught), the rows
\* it extracted, the requests it gave to crawler.addRequests, whether the
\* parser returned from it, and with which RawEvents
StageResult(name, threw, rows, reqs, returns, rawItems) ==
    [name |-> name, threw |-> threw, rows |-> rows, reqs |-> reqs,
     returns |-> returns, rawItems |-> rawItems]

Fallthrough(name, threw) == StageResult(name, threw, <<>>, <<>>, FALSE, <<>>)

\* An item of a day entry: an object, or null.  A character of a day entry
\* that is a string is an item all of whose fields are undefined.
ApiItem(title, customUrl, id, start) ==
    [isNull |-> FALSE, title |-> title, custom_url |-> customUrl, id |-> id,
     start |-> start]
NullItem == [isNull |-> TRUE, title |-> Null, custom_url |-> NoVal, id |-> NoVal,
             start |-> Null]
CharItem == ApiItem(Null, NoVal, NoVal, Null)

\* A day entry items[dateKey]: an array of items; a falsy value (null, 0, "",
\* false), replaced by []; a value for...of cannot iterate (a number, true, an
\* object); a string of one character, which for...of iterates
ArrayDay(items) == [kind |-> "array", items |-> items]
OtherDay(kind) == [kind |-> kind, items |-> <<>>]

\* the items that for (const it of items[dateKey] || []) goes through
DayItems(day) ==
    IF day.kind = "array" THEN day.items
    ELSE IF day.kind = "string" THEN << CharItem >>
    ELSE <<>>

TimelyEventBase == "https://events.timely.fun/74avt53i/event/"
TimelyEventUrl(it) ==
    IF it.custom_url # NoVal THEN TimelyEventBase \o it.custom_url
    ELSE IF it.id # NoVal THEN TimelyEventBase \o it.id
    ELSE NoVal

\* the TypeError of the loops: a day entry that is not iterable, or it.title
\* of a null item
ApiLoopThrows(entries) ==
    \E k \in 1..Len(entries) :
        \/ entries[k].day.kind = "notIterable"
        \/ \E n \in 1..Len(DayItems(entries[k].day)) : DayItems(entries[k].day)[n].isNull

ApiRowsOfDay(dateKey, dayItems, sourceUrl) ==
    [n \in 1..Len(dayItems) |->
        RawEvent(OrElse(dayItems[n].title, Null), <<>>,
                 OrElse(dayItems[n].start, OrElse(dateKey, Null)),
                 OrElseVal(TimelyEventUrl(dayItems[n]), sourceUrl))]

RECURSIVE ApiRows(_, _)
ApiRows(entries, sourceUrl) ==
    IF entries = <<>> THEN <<>>
    ELSE ApiRowsOfDay(Head(entries).dateKey, DayItems(Head(entries).day), sourceUrl)
         \o ApiRows(Tail(entries), sourceUrl)

RECURSIVE ApiReqsOfDay(_, _, _)
ApiReqsOfDay(dateKey, dayItems, req) ==
    IF dayItems = <<>> THEN <<>>
    ELSE (IF TimelyEventUrl(Head(dayItems)) = NoVal THEN <<>>
          ELSE << Request(TimelyEventUrl(Head(dayItems)), req.venueId,
                          "continentalClubEvent",
                          OrElse(Head(dayItems).title, Null), dateKey) >>)
         \o ApiReqsOfDay(dateKey, Tail(dayItems), req)

RECURSIVE ApiDetailReqs(_, _)
ApiDetailReqs(entries, req) ==
    IF entries = <<>> THEN <<>>
    ELSE ApiReqsOfDay(Head(entries).dateKey, DayItems(Head(entries).day), req)
         \o ApiDetailReqs(Tail(entries), req)

\* an API stage that returns its rows whether or not it enqueued
ApiReturnRows(rows, reqs) == StageResult("api", FALSE, rows, reqs, TRUE, rows)

\* if (rows.length) { ... if (queuedDetails) return []; return rows; }
ApiReturn(rows, reqs) ==
    StageResult("api", FALSE, rows, reqs, TRUE, IF reqs # <<>> THEN <<>> ELSE rows)

\* The try block of the API stage.  resp.kind: "fails" (page.request.get
\* throws), "status" (not 200), "badjson" (resp.json() throws), "json";
\* payload.shape: "null", "nodata", "noitems", "items"
ApiStage(resp, req, hasCrawler) ==
    IF resp.kind \in {"fails", "badjson"} THEN Fallthrough("api", TRUE)
    ELSE IF resp.kind = "status" \/ resp.payload.shape # "items"
    THEN Fallthrough("api", FALSE)
    ELSE IF ApiLoopThrows(resp.payload.items) THEN Fallthrough("api", TRUE)
    ELSE IF ApiRows(resp.payload.items, req.url) = <<>> THEN Fallthrough("api", FALSE)
    ELSE ApiReturn(ApiRows(resp.payload.items, req.url),
                   IF hasCrawler THEN ApiDetailReqs(resp.payload.items, req) ELSE <<>>)

\* ------------------------------------------------------------------------
\* continentalClubAustin, stage 2: the Timely month view
\* ------------------------------------------------------------------------
DigitsSeq == <<"0","1","2","3","4","5","6","7","8","9">>
DigitVal(c) == (CHOOSE k \in 1..10 : DigitsSeq[k] = c) - 1
\* parseInt of the digits s[i .. j-1]
RECURSIVE ParseInt(_, _, _)
ParseInt(s, i, j) ==
    IF i >= j THEN 0 ELSE ParseInt(s, i, j - 1) * 10 + DigitVal(s[j - 1])

\* parseTimeToMinutes gives null
NoMinutes == -1

\* a conversion that adds twelve hours to every pm time, 12pm too, and keeps
\* 12am as twelve hours
ToMinutesNoNoon(hour, minutes, pm) ==
    (IF pm THEN hour + 12 ELSE hour) * 60 + minutes

ToMinutes(hour, minutes, pm) ==
    (IF pm /\ hour # 12 THEN hour + 12
     ELSE IF ~pm /\ hour = 12 THEN 0 ELSE hour) * 60 + minutes

\* /(\d{1,2})(?::(\d{2}))?\s*(am|pm)/ at position i with nd digits of hour:
\* the minutes it gives, or NoMinutes if it does not match this way
TimeWith(s, i, nd) ==
    LET d == i + nd
        hour == ParseInt(s, i, d)
    IN  IF d <= Len(s) /\ s[d] = ":" /\ TwoDigits(s, d + 1) /\ IsAmPm(s, SkipWs(s, d + 3))
        THEN ToMinutes(hour, ParseInt(s, d + 1, d + 3), s[SkipWs(s, d + 3)] = "p")
        ELSE IF IsAmPm(s, SkipWs(s, d))
        THEN ToMinutes(hour, 0, s[SkipWs(s, d)] = "p")
        ELSE NoMinutes

TimeAt(s, i) ==
    IF i > Len(s) \/ ~IsDigit(s[i]) THEN NoMinutes
    ELSE IF TwoDigits(s, i) /\ TimeWith(s, i, 2) # NoMinutes THEN TimeWith(s, i, 2)
    ELSE TimeWith(s, i, 1)

RECURSIVE FirstTime(_, _)
FirstTime(s, i) ==
    IF i > Len(s) THEN NoMinutes
    ELSE IF TimeAt(s, i) # NoMinutes THEN TimeAt(s, i) ELSE FirstTime(s, i + 1)

parseTimeToMinutes(timeStr) ==
    IF ~Truthy(timeStr) THEN NoMinutes ELSE FirstTime(toLowerCase(trim(timeStr)), 1)

TimelyMonthUrl ==
    "https://events.timely.fun/74avt53i/month?venues=678194628&nofilters=1&timely_id=timely-iframe-embed-0"

\* nodes.forEach((node, idx) => ...): a node .timely-event is given by whether
\* it has a title element, that element's text without the time, the text of
\* the time element (Null if none), the date of its aria-label (Null unless
\* its last part ends with four digits) and its link
RECURSIVE TimelyNodeRows(_, _)
TimelyNodeRows(nodes, idx) ==
    IF idx > Len(nodes) THEN <<>>
    ELSE LET node == nodes[idx]
             title == trim(node.title)
         IN  (IF ~node.hasTitle \/ title = <<>> THEN <<>>
              ELSE << [eventDateRaw |-> node.date, title |-> title, headliner |-> title,
                       sourceUrl |-> TimelyMonthUrl, detailUrl |-> node.detailUrl,
                       minutes |-> parseTimeToMinutes(node.timeText),
                       domIndex |-> idx] >>)
             \o TimelyNodeRows(nodes, idx + 1)

\* the comparator of arr.sort
CompareByTime(a, b) ==
    IF a.minutes = NoMinutes /\ b.minutes = NoMinutes THEN a.domIndex - b.domIndex
    ELSE IF a.minutes = NoMinutes THEN -1
    ELSE IF b.minutes = NoMinutes THEN 1
    ELSE a.minutes - b.minutes

\* Array.prototype.sort is stable
RECURSIVE InsertByTime(_, _)
InsertByTime(sorted, x) ==
    IF sorted = <<>> THEN << x >>
    ELSE IF CompareByTime(Head(sorted), x) <= 0
         THEN << Head(sorted) >> \o InsertByTime(Tail(sorted), x)
         ELSE << x >> \o sorted

RECURSIVE SortByTime(_)
SortByTime(arr) ==
    IF arr = <<>> THEN <<>>
    ELSE InsertByTime(SortByTime(SubSeq(arr, 1, Len(arr) - 1)), arr[Len(arr)])

\* the keys of the Map byDate, in insertion order
RECURSIVE DateKeys(_, _)
DateKeys(rows, acc) ==
    IF rows = <<>> THEN acc ELSE DateKeys(Tail(rows), SetAdd(acc, Head(rows).eventDateRaw))

\* out.push({ eventDateRaw, headliner, supportingActs: [], sourceUrl }): the
\* object pushed has these four fields only, so detailUrl and title are
\* undefined on every element of timelyRows
TimelyOut(item) ==
    [eventDateRaw |-> item.eventDateRaw, headliner |-> item.headliner,
     sourceUrl |-> item.sourceUrl, detailUrl |-> NoVal, title |-> Null]

\* for (const [k, arr] of byDate.entries()) { arr.sort(...); ... }: the rows
\* date by date, each date's rows sorted
RECURSIVE ByDateSorted(_, _)
ByDateSorted(keys, rows) ==
    IF keys = <<>> THEN <<>>
    ELSE SortByTime(SelectSeq(rows, LAMBDA r : r.eventDateRaw = Head(keys)))
         \o ByDateSorted(Tail(keys), rows)

\* for (const item of arr) out.push(...)
OutOf(arr) == [k \in 1..Len(arr) |-> TimelyOut(arr[k])]

TimelyOutByDate(keys, rows) == OutOf(ByDateSorted(keys, rows))

\* timelyRows, the value of timelyPage.$$eval('.timely-event', ...)
TimelyOutOf(rows) == TimelyOutByDate(DateKeys(rows, <<>>), rows)
TimelyRows(nodes) == TimelyOutOf(TimelyNodeRows(nodes, 1))

\* for (const it of timelyRows) if (it.detailUrl) detailReqs.push(...)
RECURSIVE MonthDetailReqs(_, _)
MonthDetailReqs(timelyRows, req) ==
    IF timelyRows = <<>> THEN <<>>
    ELSE (IF Head(timelyRows).detailUrl = NoVal THEN <<>>
          ELSE << Request(Head(timelyRows).detailUrl, req.venueId, "continentalClubEvent",
                          OrElse(Head(timelyRows).title, Null),
                          OrElse(Head(timelyRows).eventDateRaw, Null)) >>)
         \o MonthDetailReqs(Tail(timelyRows), req)

\* splitArtists(r.title || r.headliner || '') and the row made of it
SplitArtists(r, sourceUrl, text, parts) ==
    RawEvent(IF parts = <<>> THEN OrElse(normalizeTitle(text), Null) ELSE parts[1],
             IF parts = <<>> THEN <<>> ELSE Tail(parts),
             OrElse(r.eventDateRaw, Null),
             OrElseVal(r.sourceUrl, sourceUrl))
MonthRowOutOf(r, sourceUrl, text) == SplitArtists(r, sourceUrl, text, splitParts(text))
MonthRowOut(r, sourceUrl) ==
    MonthRowOutOf(r, sourceUrl, OrElse(r.title, OrElse(r.headliner, <<>>)))

\* if (timelyRows && timelyRows.length) { ... if (queuedDetails) return []; return rowsOut; }
MonthReturn(rowsOut, reqs) ==
    StageResult("month", FALSE, rowsOut, reqs, TRUE, IF reqs # <<>> THEN <<>> ELSE rowsOut)

\* The try block of the month-view stage.  view.kind: "fails" (newPage, goto
\* or $$eval throws), "page"
MonthStageOf(timelyRows, req, hasCrawler) ==
    IF timelyRows = <<>> THEN Fallthrough("month", FALSE)
    ELSE MonthReturn([k \in 1..Len(timelyRows) |-> MonthRowOut(timelyRows[k], req.url)],
                     IF hasCrawler THEN MonthDetailReqs(timelyRows, req) ELSE <<>>)
MonthStage(view, req, hasCrawler) ==
    IF view.kind = "fails" THEN Fallthrough("month", TRUE)
    ELSE MonthStageOf(TimelyRows(view.nodes), req, hasCrawler)


\* ------------------------------------------------------------------------
\* continentalClubAustin, stage 3: the DOM of the venue page
\* ------------------------------------------------------------------------
\* function pushIfValid(title, url, dateText) over the nodes of one scan; a
\* node is given by whether it lies in the navigation, its trimmed title
\* (Null if it has no title element), its link and its date
RECURSIVE PushValid(_, _)
PushValid(nodes, denied) ==
    IF nodes = <<>> THEN <<>>
    ELSE LET n == Head(nodes)
         IN  (IF n.inNav \/ ~Truthy(n.title) \/ toLowerCase(n.title) \in denied THEN <<>>
              ELSE << [title |-> trim(n.title), url |-> n.url, dateText |-> n.dateText,
                       key |-> <<n.url, n.title>>] >>)
             \o PushValid(Tail(nodes), denied)

\* results.forEach(r => map.set(r.key, r)); Array.from(map.values()): a key
\* keeps the place of its first result and the value of its last
RECURSIVE MapValues(_, _)
MapValues(results, k) ==
    IF k > Len(results) THEN <<>>
    ELSE (IF \E j \in 1..(k - 1) : results[j].key = results[k].key THEN <<>>
          ELSE LET last == CHOOSE j \in k..Len(results) :
                               /\ results[j].key = results[k].key
                               /\ \A m \in (j + 1)..Len(results) :
                                      results[m].key # results[k].key
               IN  << [title |-> results[last].title, url |-> results[last].url,
                       dateText |-> results[last].dateText] >>)
         \o MapValues(results, k + 1)

DenyTitles ==
    { <<"a","b","o","u","t">>, <<"c","o","n","t","a","c","t">>,
      <<"g","a","l","l","e","r","y">>, <<"s","h","o","p">>,
      <<"w","e","l","c","o","m","e">>, <<"h","o","m","e">>,
      <<"c","o","n","t","a","c","t"," ","u","s">>,
      <<"a","u","s","t","i","n"," ","s","h","o","p">>,
      <<"h","o","u","s","t","o","n"," ","s","h","o","p">>,
      <<"a","u","s","t","i","n"," ","t","i","c","k","e","t","s">> }

\* /\b\d{4}$/.test(line)
EndsWithYear(line) ==
    /\ Len(line) >= 4
    /\ \A k \in (Len(line) - 3)..Len(line) : IsDigit(line[k])
    /\ WordBoundary(line, Len(line) - 3)

\* the text scan: a line that ends with a year, paired with the next line
RECURSIVE TextScan(_, _)
TextScan(lines, i) ==
    IF i > Len(lines) THEN <<>>
    ELSE (IF EndsWithYear(lines[i]) /\ i + 1 <= Len(lines)
             /\ Len(lines[i + 1]) > 0 /\ Len(lines[i + 1]) < 80
          THEN << [title |-> trim(lines[i + 1]), url |-> NoVal, dateText |-> lines[i],
                   key |-> <<NoVal, lines[i + 1]>>] >>
          ELSE <<>>)
         \o TextScan(lines, i + 1)

\* lines = text.split('\n').map(l => l.trim()).filter(Boolean)
PageLines(text) == TrimAndFilter(text)

\* what the last scan of a page.evaluate callback gave
LastScanRows(scans) == scans[Len(scans)].rows

\* The page.evaluate callback: the scans it made, in order, each with the
\* rows it gave.  A scan whose selector finds a node is the last one.
DomScans(dom) ==
    IF dom.timely # <<>>
    THEN << [name |-> "dom-timely", rows |-> MapValues(PushValid(dom.timely, {}), 1)] >>
    ELSE IF dom.candidates # <<>>
    THEN << [name |-> "dom-timely", rows |-> <<>>],
            [name |-> "dom-candidates",
             rows |-> MapValues(PushValid(dom.candidates, DenyTitles), 1)] >>
    ELSE << [name |-> "dom-timely", rows |-> <<>>],
            [name |-> "dom-candidates", rows |-> <<>>],
            [name |-> "dom-text",
             rows |-> MapValues(TextScan(PageLines(dom.lines), 1), 1)] >>

\* rows, the value of page.evaluate
DomRows(dom) == LastScanRows(DomScans(dom))

\* likelyEvent(url) on the links of the modelled pages: the path /about is on
\* the deny list, /austin/ matches no pattern, /event/... matches /\/event(?:s)?\//
LikelyEventUrls == {"https://continentalclub.com/event/1", "https://continentalclub.com/event/2"}
UnlikelyUrls == {"https://continentalclub.com/about", "https://continentalclub.com/austin/"}
likelyEvent(url) == url # NoVal /\ url \in LikelyEventUrls

\* filtered = withUrls.filter(ev => likelyEvent(ev.url))
Filtered(rows) == SelectSeq(rows, LAMBDA r : r.url # NoVal /\ likelyEvent(r.url))

\* filtered.map(ev => ({ url: ev.url, userData: { ... } }))
DetailRequestsOf(filtered, req) ==
    [k \in 1..Len(filtered) |->
        Request(filtered[k].url, req.venueId, "continentalClubEvent",
                OrElse(filtered[k].title, Null), OrElse(filtered[k].dateText, Null))]

DomDetailReqs(rows, req) == DetailRequestsOf(Filtered(rows), req)

\* (rows || []).flatMap(r => r.title ? [{ eventDateRaw, headliner: r.title, ... }] : [])
RECURSIVE DomRawEvents(_, _)
DomRawEvents(rows, sourceUrl) ==
    IF rows = <<>> THEN <<>>
    ELSE (IF Truthy(Head(rows).title)
          THEN << RawEvent(Head(rows).title, <<>>, OrElse(Head(rows).dateText, Null),
                           sourceUrl) >>
          ELSE <<>>)
         \o DomRawEvents(Tail(rows), sourceUrl)

\* the end of continentalClubAustin: if (queuedDetails) return []; return rows...
DomReturn(rows, reqs, sourceUrl) ==
    StageResult("dom", FALSE, rows, reqs, TRUE,
                IF reqs # <<>> THEN <<>> ELSE DomRawEvents(rows, sourceUrl))

DomStageOf(rows, req, hasCrawler) ==
    DomReturn(rows, IF hasCrawler THEN DomDetailReqs(rows, req) ELSE <<>>, req.url)

DomStage(dom, req, hasCrawler) == DomStageOf(DomRows(dom), req, hasCrawler)

\* ------------------------------------------------------------------------
\* emosAustin and scootInn: JSON-LD first, DOM cards as the fallback
\* ------------------------------------------------------------------------
\* pushRow(name, url, dateRaw) over a list of candidates, with the Set seen
RECURSIVE PushRows(_, _)
PushRows(cands, seen) ==
    IF cands = <<>> THEN <<>>
    ELSE LET c == Head(cands)
             key == <<toLowerCase(OrElse(c.name, <<>>)), c.url, OrElse(c.date, <<>>)>>
         IN  IF ~Truthy(c.name) \/ key \in seen THEN PushRows(Tail(cands), seen)
             ELSE << [headliner |-> trim(c.name), eventDateRaw |-> OrElse(c.date, Null),
                      sourceUrl |-> c.url] >>
                  \o PushRows(Tail(cands), seen \cup {key})

\* The events one JSON-LD script gives to pushRow.  script.kind: "malformed"
\* (JSON.parse throws, caught), "other" (an object that is no MusicEvent),
\* "event" (a MusicEvent), "graph" (an object whose @graph holds the event)
ScriptEvents(script) ==
    IF script.kind \in {"event", "graph"}
    THEN << [name |-> script.name, url |-> script.url, date |-> script.date] >>
    ELSE <<>>

RECURSIVE AllScriptEvents(_)
AllScriptEvents(scripts) ==
    IF scripts = <<>> THEN <<>>
    ELSE ScriptEvents(Head(scripts)) \o AllScriptEvents(Tail(scripts))

\* a callback that scans the cards whether or not JSON-LD gave rows
EmosScansBoth(page) ==
    << [name |-> "jsonld", rows |-> PushRows(AllScriptEvents(page.scripts), {})],
       [name |-> "cards",
        rows |-> PushRows(AllScriptEvents(page.scripts) \o page.cards, {})] >>

\* if (!rows.length) { ... the cards ... }
CardsIfNone(fromLd, cards) ==
    IF fromLd # <<>> THEN << [name |-> "jsonld", rows |-> fromLd] >>
    ELSE << [name |-> "jsonld", rows |-> <<>>],
            [name |-> "cards", rows |-> PushRows(cards, {})] >>

\* the scans of the page.evaluate callback, in order, each with its rows
EmosScans(page) == CardsIfNone(PushRows(AllScriptEvents(page.scripts), {}), page.cards)

\* (events || []).map(ev => ({ headliner: ev.headliner || null, ... }))
EmosRawEvents(events, req) ==
    Parsed(events, <<>>,
           [k \in 1..Len(events) |->
               RawEvent(OrElse(events[k].headliner, Null), <<>>,
                        OrElse(events[k].eventDateRaw, Null),
                        OrElseVal(events[k].sourceUrl, req.url))])

\* emosAustin and scootInn are the same code
emosAustin(page, req) == EmosRawEvents(LastScanRows(EmosScans(page)), req)


\* ------------------------------------------------------------------------
\* Bounds and the page contents the parsers are run on
\* ------------------------------------------------------------------------
MaxAnchors == 2
MaxCards == 2
\* Crawlee retries a request whose handler threw; main.js leaves the number
\* of retries at the framework's default, the model bounds it
MaxRetries == 1

LinkTexts == { <<"A","b","c">>, <<"A","b","c"," ">>, <<"-","-","-">>, <<"a","b">> }
EventUrls == {"https://venue.example/events/1", "https://venue.example/events/2"}
Anchors == [text : LinkTexts, url : EventUrls]

CardHeadliners == { Null, <<"a">>, <<"A"," ">>, <<"b">>, <<"(","a",")">>,
                    <<"a",",","b">> }
CardSupports == { <<>>, <<"a"," ","&"," ","(","c",")">> }
Cards == [headliner : CardHeadliners, supportsText : CardSupports,
          url : {"https://mohawkaustin.com/e1"}, dateText : {<<"Fri May 2">>}]

MaxApiItems == 2
MaxNodes == 2
MaxDomNodes == 2
MaxScripts == 2

DateKey == <<"2025-05-02">>
ApiItems ==
    {NullItem} \cup
    { ApiItem(t, c, i, Null) : t \in {Null, <<"a">>}, c \in {NoVal, "show-1"},
                                i \in {NoVal, "101"} }
ApiDays ==
    { ArrayDay(items) : items \in SeqUpTo(ApiItems, MaxApiItems) }
    \cup { OtherDay(k) : k \in {"falsy", "notIterable", "string"} }
NoPayload == [shape |-> "null", items |-> <<>>]
ApiResponses ==
    { [kind |-> k, payload |-> NoPayload] : k \in {"fails", "status", "badjson"} }
    \cup { [kind |-> "json", payload |-> [shape |-> sh, items |-> <<>>]] :
              sh \in {"null", "nodata", "noitems", "items"} }
    \cup { [kind |-> "json",
            payload |-> [shape |-> "items", items |-> << [dateKey |-> DateKey, day |-> d] >>]] :
              d \in ApiDays }

TimelyNode(hasTitle, title, timeText, date, detailUrl) ==
    [hasTitle |-> hasTitle, title |-> title, timeText |-> timeText, date |-> date,
     detailUrl |-> detailUrl]
TimelyNodes ==
    { TimelyNode(FALSE, <<>>, Null, Null, NoVal) } \cup
    { TimelyNode(TRUE, act[1], act[2], d, u) :
        act \in { << <<"a">>, Null >>,
                  << <<"b">>, <<"9",":","3","0","p","m">> >>,
                  << <<"c"," ","&"," ","d">>, <<"7",":","0","0","p","m">> >> },
        d \in { Null, <<"May 2, 2025">> },
        u \in { NoVal, "https://events.timely.fun/74avt53i/event/show-1" } }
MonthViews ==
    { [kind |-> "fails", nodes |-> <<>>] } \cup
    { [kind |-> "page", nodes |-> nodes] : nodes \in SeqUpTo(TimelyNodes, MaxNodes) }

DomNode(inNav, title, url, dateText) ==
    [inNav |-> inNav, title |-> title, url |-> url, dateText |-> dateText]
DomNodes ==
    { DomNode(TRUE, <<"a">>, "https://continentalclub.com/event/1", Null),
      DomNode(FALSE, Null, "https://continentalclub.com/event/1", Null),
      DomNode(FALSE, <<"a">>, NoVal, Null),
      DomNode(FALSE, <<"a">>, "https://continentalclub.com/event/1", Null),
      DomNode(FALSE, <<"a">>, "https://continentalclub.com/about", Null) }
CandidateLists ==
    { <<>>,
      << DomNode(FALSE, <<"A","b","o","u","t">>, "https://continentalclub.com/about", Null) >>,
      << DomNode(FALSE, <<"b">>, "https://continentalclub.com/event/2", <<"May 3">>) >>,
      << DomNode(FALSE, <<"b">>, "https://continentalclub.com/austin/", Null),
         DomNode(FALSE, <<"b">>, "https://continentalclub.com/austin/", <<"May 3">>) >> }
LineLists ==
    { <<>>,
      << <<"2","0","2","5">>, <<"b">> >>,
      << <<"x","2","0","2","5">>, <<"M","a","y"," ","2","0","2","5">>, <<" ","c"," ">> >> }
\* pages with .timely-event nodes (and other candidates, and text), and pages
\* without
DomPages ==
    { [timely |-> t,
       candidates |-> << DomNode(FALSE, <<"b">>, "https://continentalclub.com/event/2", <<"May 3">>) >>,
       lines |-> << <<"2","0","2","5">>, <<"b">> >>] :
        t \in SeqUpTo(DomNodes, MaxDomNodes) \ { <<>> } }
    \cup
    { [timely |-> <<>>, candidates |-> c, lines |-> l] :
        c \in CandidateLists, l \in LineLists }

Script(kind, name, date) == [kind |-> kind, name |-> name, url |-> NoVal, date |-> date]
Scripts ==
    { Script("malformed", Null, Null), Script("other", Null, Null),
      Script("graph", <<"b">>, Null), Script("event", <<"a">>, Null),
      Script("event", <<"A">>, <<"2025-05-02">>), Script("event", <<" ">>, Null) }
EmosCard(name) == [name |-> name, url |-> "https://www.emosaustin.com/event/1", date |-> Null]
EmosCardLists ==
    { <<>>, << EmosCard(<<>>) >>, << EmosCard(<<"a">>), EmosCard(<<"b">>) >>,
      << EmosCard(<<"a">>), EmosCard(<<>>), EmosCard(<<"a">>) >> }
EmosPages ==
    { [scripts |-> sc, cards |-> c] :
        sc \in SeqUpTo(Scripts, MaxScripts), c \in EmosCardLists }

\* ------------------------------------------------------------------------
\* State
\* ------------------------------------------------------------------------
VARIABLES
    queue,          \* the request queue of the crawler
    cur,            \* the request of the invocation under way, or of the last one
    hasCrawler,     \* whether that invocation has a crawl context (context.crawler)
    pc,             \* where that invocation stands
    parsed,         \* what its parser did: Parsed(found, reqs, rawItems)
    stages,         \* the extraction stages its parser went through, in order
    normalizedRows, \* the rows of its Record Normalizer
    batch,          \* the rows it gave to Actor.pushData (<<>>: no call)
    logs,           \* what it logged
    outcome,        \* how it ended
    stats,          \* the crawler's count of requests added, finished and failed
    call,           \* a direct call of one function of main.js: its name and argument
    ret,            \* what the function called returned, call after call
    running,        \* the invocations of requestHandler under way, one per slot of the pool
    sink,           \* the batches given to Actor.pushData by those invocations, in order
    seenKeys        \* the dedup keys of all the rows those invocations have kept

pool == <<running, sink, seenKeys>>

vars == <<queue, cur, hasCrawler, pc, parsed, stages, normalizedRows, batch, logs, outcome,
          stats, call, ret, pool>>

\* maxConcurrency: Math.min(maxConcurrency || 1, 3); two slots show every
\* interleaving of two invocations
MaxConcurrency == 2
Slots == 1..MaxConcurrency

\* no direct call is made in a crawl
NoCall == [fn |-> "none", arg |-> <<>>]

NoRequest == Request(NoVal, NoVal, NoVal, Null, Null)
NothingParsed == Parsed(<<>>, <<>>, <<>>)

\* a slot of the pool with no invocation under way
IdleSlot == [pc |-> "idle", req |-> NoRequest, rawItems |-> <<>>, rows |-> <<>>]
\* the pool when the crawler is looked at one invocation at a time
NoPool == running = [h \in Slots |-> IdleSlot] /\ sink = <<>> /\ seenKeys = {}

\* startRequests = venues.map(...): the input names one venue, or two
VenueLists ==
    { << v >> : v \in Venues } \cup
    { << Venue("toString", "https://example.com/", NoVal),
         Venue("mohawkAustin", "https://mohawkaustin.com/", NoVal) >>,
      << Venue("emosAustin", "https://www.emosaustin.com/shows/", NoVal),
         Venue("mohawkAustin", "https://mohawkaustin.com/", NoVal) >> }

Init ==
    /\ \E venues \in VenueLists :
          queue = [k \in 1..Len(venues) |-> StartRequest(venues[k])]
    /\ cur = NoRequest
    /\ hasCrawler = FALSE
    /\ pc = "idle"
    /\ parsed = NothingParsed
    /\ stages = <<>>
    /\ normalizedRows = <<>>
    /\ batch = <<>>
    /\ logs = {}
    /\ outcome = "none"
    /\ stats = [added |-> Len(queue), finished |-> 0, failed |-> 0]
    /\ call = NoCall
    /\ ret = <<>>
    /\ NoPool

RemoveAt(q, i) == SubSeq(q, 1, i - 1) \o SubSeq(q, i + 1, Len(q))

\* a new invocation starts: nothing parsed, pushed or logged yet
Fresh(req, crawler) ==
    /\ cur' = req
    /\ hasCrawler' = crawler
    /\ parsed' = NothingParsed
    /\ stages' = <<>>
    /\ normalizedRows' = <<>>
    /\ batch' = <<>>

\* an error that ends the run: the requests still queued are given up
AbortRun(r, rest, error) ==
    /\ queue' = <<>>
    /\ outcome' = "failed"
    /\ logs' = {"warning: " \o error}
    /\ stats' = [stats EXCEPT !.failed = @ + 1]

\* a request that is put back without a count of its retries
RetriedUncounted(r) == r

\* the request as Crawlee puts it back after an error
Retried(r) == [r EXCEPT !.retryCount = @ + 1]

\* The handler of request r threw, or its page did not load: Crawlee logs the
\* error and puts the request back until its retries are used up, then calls
\* failedRequestHandler
AfterError(r, rest, error) ==
    IF r.retryCount < MaxRetries
    THEN /\ queue' = Append(rest, Retried(r))
         /\ outcome' = "retry"
         /\ logs' = {"warning: " \o error}
         /\ UNCHANGED stats
    ELSE /\ queue' = rest
         /\ outcome' = "failed"
         /\ logs' = {"warning: " \o error, "error: request failed too many times"}
         /\ stats' = [stats EXCEPT !.failed = @ + 1]

\* requestHandler, the branch if (!parser): log.error and return
HandleMissingParser(i) ==
    /\ pc = "idle"
    /\ Lookup(ParserKey(queue[i])) = "undefined"
    /\ Fresh(queue[i], TRUE)
    /\ queue' = RemoveAt(queue, i)
    /\ logs' = {"error: no parser found"}
    /\ outcome' = "handled"
    /\ stats' = [stats EXCEPT !.finished = @ + 1]
    /\ pc' = "idle"
    /\ UNCHANGED <<call, ret, pool>>

\* requestHandler with a parser key that Object.prototype answers.
\* "constructor": Object(arg) returns arg, which has no length, so the handler
\* warns "returned no items" and returns.  "toString": the call returns the
\* string "[object Undefined]", which has a length and no flatMap: TypeError.
HandleInheritedKey(i) ==
    /\ pc = "idle"
    /\ Lookup(ParserKey(queue[i])) = "inherited"
    /\ Fresh(queue[i], TRUE)
    /\ pc' = "idle"
    /\ IF ParserKey(queue[i]) = "constructor"
       THEN /\ queue' = RemoveAt(queue, i)
            /\ logs' = {"warning: parser returned no items"}
            /\ outcome' = "handled"
            /\ stats' = [stats EXCEPT !.finished = @ + 1]
       ELSE AfterError(queue[i], RemoveAt(queue, i), "rawItems.flatMap is not a function")
    /\ UNCHANGED <<call, ret, pool>>

\* the parsers the model runs
DetailParsers == {"comeAndTakeItEvent", "continentalClubEvent", "parishAustinEvent",
                  "empireAtAustinEvent", "stubbsAustinEvent"}

Modelled == DetailParsers \cup
            {"mohawkAustin", "parishAustin", "empireAtAustin", "stubbsAustin",
             "continentalClubAustin", "emosAustin", "scootInn"}

\* the calendar parsers, which read context?.crawler
CalendarParsers == {"continentalClubAustin", "parishAustin", "empireAtAustin",
                    "stubbsAustin"}

\* requestHandler up to await parser({ page, request, context, log })
BeginHandle(i) ==
    /\ pc = "idle"
    /\ ParserKey(queue[i]) \in Modelled
    /\ Fresh(queue[i], TRUE)
    /\ queue' = RemoveAt(queue, i)
    /\ logs' = {}
    /\ outcome' = "running"
    /\ pc' = "parse"
    /\ UNCHANGED <<stats, call, ret, pool>>

\* the page of request i does not load (navigationTimeoutSecs: 90)
NavigationFails(i) ==
    /\ pc = "idle"
    /\ Fresh(queue[i], TRUE)
    /\ pc' = "idle"
    /\ AfterError(queue[i], RemoveAt(queue, i), "navigation timed out")
    /\ UNCHANGED <<call, ret, pool>>

\* a direct call parser({ page, request }) of a calendar parser, with no
\* crawl context: context?.crawler is undefined
Probe(v) ==
    /\ pc = "idle"
    /\ queue = <<>>
    /\ outcome # "probed"
    /\ ParserKey(StartRequest(v)) \in CalendarParsers
    /\ Fresh(StartRequest(v), FALSE)
    /\ logs' = {}
    /\ outcome' = "running"
    /\ pc' = "parse"
    /\ UNCHANGED <<queue, stats, call, ret, pool>>

\* the parser returned res: with a crawl context the handler goes on
Returned(res) ==
    /\ parsed' = res
    /\ queue' = queue \o res.reqs
    /\ stats' = [stats EXCEPT !.added = @ + Len(res.reqs)]
    /\ pc' = IF hasCrawler THEN "parsed" ELSE "idle"
    /\ outcome' = IF hasCrawler THEN "running" ELSE "probed"
    /\ UNCHANGED <<cur, hasCrawler, normalizedRows, batch>>

RunParishAustin(anchors) ==
    /\ pc = "parse" /\ ParserKey(cur) = "parishAustin"
    /\ Returned(parishAustin(anchors, cur, hasCrawler))
    /\ UNCHANGED <<stages, logs, call, ret, pool>>

RunEmpireAtAustin(anchors) ==
    /\ pc = "parse" /\ ParserKey(cur) = "empireAtAustin"
    /\ Returned(empireAtAustin(anchors, cur, hasCrawler))
    /\ UNCHANGED <<stages, logs, call, ret, pool>>

RunStubbsAustin(anchors) ==
    /\ pc = "parse" /\ ParserKey(cur) = "stubbsAustin"
    /\ Returned(stubbsAustin(anchors, cur, hasCrawler))
    /\ UNCHANGED <<stages, logs, call, ret, pool>>

RunMohawkAustin(cards) ==
    /\ pc = "parse" /\ ParserKey(cur) = "mohawkAustin"
    /\ Returned(mohawkAustin(cards, cur))
    /\ UNCHANGED <<stages, logs, call, ret, pool>>

\* the record of one stage in the variable stages
StageRec(name, threw, rows) == [name |-> name, threw |-> threw, n |-> Len(rows)]

\* one stage of continentalClubAustin ended with r: the parser returns, or
\* goes on with the stage at next
AfterStage(r, next) ==
    /\ logs' = logs \cup (IF r.threw THEN {"warning: " \o r.name \o " stage failed"} ELSE {})
    /\ IF r.returns
       THEN Returned(Parsed(r.rows, r.reqs, r.rawItems))
       ELSE /\ pc' = next
            /\ UNCHANGED <<queue, cur, hasCrawler, parsed, normalizedRows, batch, outcome,
                           stats>>

\* a stage that is one try block ended with r
TryStageDone(r, next) ==
    /\ stages' = Append(stages, StageRec(r.name, r.threw, r.rows))
    /\ AfterStage(r, next)

\* the records of the scans of one page.evaluate callback
ScanRecs(scans) == [k \in 1..Len(scans) |-> StageRec(scans[k].name, FALSE, scans[k].rows)]

RunApiStage(resp) ==
    /\ pc = "parse" /\ ParserKey(cur) = "continentalClubAustin"
    /\ TryStageDone(ApiStage(resp, cur, hasCrawler), "month")
    /\ UNCHANGED <<call, ret, pool>>

RunMonthStage(view) ==
    /\ pc = "month"
    /\ TryStageDone(MonthStage(view, cur, hasCrawler), "dom")
    /\ UNCHANGED <<call, ret, pool>>

RunDomStage(dom) ==
    /\ pc = "dom"
    /\ stages' = stages \o ScanRecs(DomScans(dom))
    /\ AfterStage(DomStage(dom, cur, hasCrawler), "dom")
    /\ UNCHANGED <<call, ret, pool>>

RunEmosAustin(page) ==
    /\ pc = "parse" /\ ParserKey(cur) \in {"emosAustin", "scootInn"}
    /\ stages' = ScanRecs(EmosScans(page))
    /\ Returned(emosAustin(page, cur))
    /\ UNCHANGED <<logs, call, ret, pool>>

\* the await of page.$$eval or page.evaluate that no try block encloses
\* rejects (the page crashed, or its context was destroyed by a navigation):
\* the handler throws.  In continentalClubAustin that await is the one of the
\* DOM stage.
ParserThrows ==
    /\ hasCrawler
    /\ \/ pc = "parse" /\ ParserKey(cur) # "continentalClubAustin"
       \/ pc = "dom"
    /\ pc' = "idle"
    /\ AfterError(cur, queue, "page.evaluate failed")
    /\ UNCHANGED <<cur, hasCrawler, parsed, stages, normalizedRows, batch, call, ret, pool>>

\* does some item have neither headliner nor artistName
SomeItemWithoutName(rawItems) ==
    \E k \in 1..Len(rawItems) :
        ~Truthy(rawItems[k].headliner) /\ ~Truthy(rawItems[k].artistName)

\* a handler that calls Actor.pushData whatever the number of rows
PushedAlways(rows, uniqueRows) ==
    /\ normalizedRows' = rows
    /\ batch' = uniqueRows
    /\ logs' = logs \cup {"info: pushing rows to dataset"}

\* requestHandler from the dedup on: uniqueRows goes to Actor.pushData unless
\* it is empty
Pushed(rows, uniqueRows) ==
    /\ normalizedRows' = rows
    /\ batch' = uniqueRows
    /\ logs' = logs
                \cup (IF SomeItemWithoutName(parsed.rawItems)
                      THEN {"warning: item had no headliner or artistName"} ELSE {})
                \cup (IF uniqueRows = <<>> THEN {"warning: no normalized rows"}
                      ELSE {"info: pushing rows to dataset"})

Normalized(rows) == Pushed(rows, UniqueRows(rows))

\* requestHandler after await parser(...): normalize, dedupe, push
Finish ==
    /\ pc = "parsed"
    /\ pc' = "idle"
    /\ outcome' = "handled"
    /\ IF parsed.rawItems = <<>>
       THEN /\ logs' = logs \cup {"warning: parser returned no items"}
            /\ UNCHANGED <<normalizedRows, batch>>
       ELSE Normalized(NormalizedRows(parsed.rawItems, cur, ParserKey(cur)))
    /\ stats' = [stats EXCEPT !.finished = @ + 1]
    /\ UNCHANGED <<queue, cur, hasCrawler, parsed, stages, call, ret, pool>>


\* ------------------------------------------------------------------------
\* comeAndTakeItEvent (detail page of Come and Take It Productions)
\* ------------------------------------------------------------------------
MaxLineLength == 80
LineupCap == 8
WordCap == 8

PresentsPhrase == <<"c","o","m","e"," ","a","n","d"," ","t","a","k","e"," ","i","t"," ","p","r","o","d","u","c","t","i","o","n","s"," ","p","r","e","s","e","n","t","s">>

\* position of the first occurrence at or after i of w in s, whatever the
\* case (0 if none)
RECURSIVE FirstCI(_, _, _)
FirstCI(s, w, i) ==
    IF i + Len(w) - 1 > Len(s) THEN 0
    ELSE IF AtCI(s, i, w) THEN i
    ELSE FirstCI(s, w, i + 1)

\* /Come and Take It Productions presents/i.test(line)
IsPresentsLine(line) == FirstCI(line, PresentsPhrase, 1) # 0

\* first position >= i of s that holds no letter
RECURSIVE SkipAlpha(_, _)
SkipAlpha(s, i) ==
    IF i <= Len(s) /\ (IsUpper(s[i]) \/ IsLower(s[i])) THEN SkipAlpha(s, i + 1) ELSE i

\* /^[A-Za-z]+,\s+[A-Za-z]+\s+\d{1,2}$/.test(line)
IsFullDate(line) ==
    LET a == SkipAlpha(line, 1)
        b == SkipWs(line, a + 1)
        c == SkipAlpha(line, b)
        d == SkipWs(line, c)
    IN  /\ a > 1 /\ a <= Len(line) /\ line[a] = ","
        /\ b > a + 1 /\ c > b /\ d > c
        /\ Len(line) - d + 1 \in 1..2
        /\ \A k \in d..Len(line) : IsDigit(line[k])

\* the first line that is a date (null if none)
RECURSIVE EventDateFull(_, _)
EventDateFull(allLines, i) ==
    IF i > Len(allLines) THEN Null
    ELSE IF IsFullDate(allLines[i]) THEN allLines[i]
    ELSE EventDateFull(allLines, i + 1)

\* allLines.findIndex(...), 1-based (0 if none)
RECURSIVE StartIndex(_, _)
StartIndex(allLines, i) ==
    IF i > Len(allLines) THEN 0
    ELSE IF IsPresentsLine(allLines[i]) THEN i
    ELSE StartIndex(allLines, i + 1)

BoilerplateWords ==
    { <<"t","i","c","k","e","t","s">>,
      <<"e","v","e","n","t"," ","d","e","t","a","i","l","s">>,
      <<"d","e","t","a","i","l","s">>,
      <<"v","e","n","u","e"," ","i","n","f","o">>,
      <<"t","i","m","e",":">>,
      <<"d","o","o","r","s">>,
      <<"s","h","o","w",":">>,
      <<"a","g","e","s">>,
      <<"a","d","m","i","s","s","i","o","n">> }
W_onsale == <<"o","n","s","a","l","e">>
W_www == <<"w","w","w",".">>

\* stopPattern.test(line)
StopPattern(line) == \E w \in BoilerplateWords \cup {W_onsale} : AtCI(line, 1, w)

\* a scan without the cap on the number of lines
RECURSIVE LineupNoCap(_, _, _)
LineupNoCap(allLines, i, lineupLines) ==
    IF i > Len(allLines) THEN lineupLines
    ELSE IF \/ AtCI(allLines[i], 1, W_www)
            \/ StopPattern(allLines[i])
            \/ Len(allLines[i]) > MaxLineLength
         THEN lineupLines
    ELSE LineupNoCap(allLines, i + 1, Append(lineupLines, allLines[i]))

\* the loop over allLines from position i on
RECURSIVE LineupLines(_, _, _)
LineupLines(allLines, i, lineupLines) ==
    IF i > Len(allLines) THEN lineupLines
    ELSE IF allLines[i] = <<>> THEN LineupLines(allLines, i + 1, lineupLines)
    ELSE IF AtCI(allLines[i], 1, W_www) THEN lineupLines
    ELSE IF StopPattern(allLines[i]) THEN lineupLines
    ELSE IF Len(allLines[i]) > MaxLineLength THEN lineupLines
    ELSE IF Len(lineupLines) + 1 >= LineupCap THEN Append(lineupLines, allLines[i])
    ELSE LineupLines(allLines, i + 1, Append(lineupLines, allLines[i]))

Lineup(allLines, startIndex) ==
    IF startIndex = 0 THEN <<>> ELSE LineupLines(allLines, startIndex + 1, <<>>)

\* v.replace(/^[ndash-]\s*/, '')
StripLeadDash(v) ==
    IF v # <<>> /\ v[1] \in {"-", "ndash"} THEN From(v, SkipWs(v, 2)) ELSE v

normalizeName(name) == trim(StripLeadDash(CollapseWs(name)))

\* if (/^(with)\s+/i.test(line)) line = line.replace(/^with\s+/i, '')
StripWith(line) ==
    IF AtCI(line, 1, W_with) /\ Len(line) >= 5 /\ IsSpace(line[5])
    THEN From(line, SkipWs(line, 5))
    ELSE line

\* /,| & | and |\+/i
NameDelims ==
    << Delim("none", <<",">>, FALSE, "none"),
       Delim("none", <<" ", "&", " ">>, FALSE, "none"),
       Delim("none", <<" ", "a", "n", "d", " ">>, FALSE, "none"),
       Delim("none", <<"+">>, FALSE, "none") >>

\* parts.map((p) => normalizeName(p)).filter(Boolean)
RECURSIVE NormalizeAndFilter(_)
NormalizeAndFilter(parts) ==
    IF parts = <<>> THEN <<>>
    ELSE IF normalizeName(Head(parts)) = <<>> THEN NormalizeAndFilter(Tail(parts))
    ELSE << normalizeName(Head(parts)) >> \o NormalizeAndFilter(Tail(parts))

\* part.split(/\s+/).length
WordCount(part) ==
    1 + Cardinality({ k \in 1..Len(part) : IsSpace(part[k]) /\ (k = 1 \/ ~IsSpace(part[k - 1])) })

\* /[0-9]:[0-9]{2}\s*(am|pm)/i.test(part)
HasClockTime(part) ==
    \E k \in 1..Len(part) :
        /\ IsDigit(part[k])
        /\ k + 1 <= Len(part) /\ part[k + 1] = ":"
        /\ TwoDigits(part, k + 2)
        /\ IsAmPm(part, SkipWs(part, k + 4))

KeepPart(part) ==
    /\ WordCount(part) <= WordCap
    /\ ~ \E w \in BoilerplateWords : AtCI(part, 1, w)
    /\ ~HasClockTime(part)

\* the parts of one line that are pushed to candidateNames
PartsOfLine(line) ==
    SelectSeq(NormalizeAndFilter(split(StripWith(line), NameDelims)), KeepPart)

RECURSIVE CandidateNames(_)
CandidateNames(lineup) ==
    IF lineup = <<>> THEN <<>>
    ELSE IF normalizeName(Head(lineup)) = <<>> THEN CandidateNames(Tail(lineup))
    ELSE PartsOfLine(normalizeName(Head(lineup))) \o CandidateNames(Tail(lineup))

\* Array.from(new Set(names))
RECURSIVE Unique(_, _)
Unique(names, seen) ==
    IF names = <<>> THEN seen ELSE Unique(Tail(names), SetAdd(seen, Head(names)))

\* headingTitle.replace(/Come and Take It Productions presents:?\s*/i, '').trim()
StripPhraseAt(s, i, e) ==
    IF i = 0 THEN s
    ELSE Upto(s, i) \o From(s, SkipWs(s, IF e <= Len(s) /\ s[e] = ":" THEN e + 1 ELSE e))
HeadingHeadliner(headingTitle) ==
    trim(StripPhraseAt(headingTitle, FirstCI(headingTitle, PresentsPhrase, 1),
                       FirstCI(headingTitle, PresentsPhrase, 1) + Len(PresentsPhrase)))

ComeAndTakeItRawEvent(uniqueNames, fullDate, headingTitle, sourceUrl) ==
    RawEvent(IF uniqueNames # <<>> THEN uniqueNames[1]
             ELSE IF Truthy(headingTitle) THEN HeadingHeadliner(headingTitle)
             ELSE Null,
             IF uniqueNames = <<>> THEN <<>> ELSE Tail(uniqueNames),
             fullDate, sourceUrl)

\* page: the lines of document.body.innerText, trimmed, without the empty
\* ones, and the trimmed text of the heading (null if none)
comeAndTakeItEvent(page, sourceUrl) ==
    << ComeAndTakeItRawEvent(
           Unique(CandidateNames(Lineup(page.lines, StartIndex(page.lines, 1))), <<>>),
           EventDateFull(page.lines, 1), page.heading, sourceUrl) >>

\* ------------------------------------------------------------------------
\* parishAustinEvent and empireAtAustinEvent (detail pages); the two differ
\* in the words that cut a name: "at" for the first, "at" and "in" for the
\* second
\* ------------------------------------------------------------------------
W_at == <<"a","t">>
W_in == <<"i","n">>
W_on == <<"o","n">>
W_wSlash == <<"w","/">>

\* /\s+word\s+/i matches at position p of s
WsWordWs(s, p, w) ==
    /\ p <= Len(s) /\ IsSpace(s[p])
    /\ AtCI(s, SkipWs(s, p), w)
    /\ SkipWs(s, p) + Len(w) <= Len(s)
    /\ IsSpace(s[SkipWs(s, p) + Len(w)])

\* first position >= i where /\s+(?:words)\s+/i matches (0 if none)
RECURSIVE FirstWsWordWs(_, _, _)
FirstWsWordWs(s, words, i) ==
    IF i > Len(s) THEN 0
    ELSE IF \E w \in words : WsWordWs(s, i, w) THEN i
    ELSE FirstWsWordWs(s, words, i + 1)

\* p.replace(/\s+(?:words)\s+.*/i, '')
CutAtWords(s, words) ==
    IF FirstWsWordWs(s, words, 1) = 0 THEN s ELSE Upto(s, FirstWsWordWs(s, words, 1))

\* end of (?:w\/|with) at position k of s (0 if it is not there)
WithWordEnd(s, k) ==
    IF AtCI(s, k, W_wSlash) THEN k + 2 ELSE IF AtCI(s, k, W_with) THEN k + 4 ELSE 0

\* start of the second group when \s+(?:w\/|with)\s+ matches at q (0 if it
\* does not): after the white space, or on its last character when nothing
\* follows it
SupportsStart(s, q, e) ==
    IF ~(IsSpace(s[q]) /\ e # 0 /\ e <= Len(s) /\ IsSpace(s[e])) THEN 0
    ELSE IF SkipWs(s, e) <= Len(s) THEN SkipWs(s, e)
    ELSE IF Len(s) - e >= 1 THEN Len(s)
    ELSE 0

\* the least end q of the first group (.+?) for which the rest matches
RECURSIVE WithAt(_, _)
WithAt(s, q) ==
    IF q > Len(s) THEN 0
    ELSE IF SupportsStart(s, q, WithWordEnd(s, SkipWs(s, q))) # 0 THEN q
    ELSE WithAt(s, q + 1)

NoMatch == [matched |-> FALSE]

\* the two groups, trimmed; the second ends before /\s+(?:words)\s+/ or at
\* the end of the text
WithGroups(s, q, m, cuts) ==
    [matched |-> TRUE,
     mainArtist |-> trim(Upto(s, q)),
     supports |-> trim(SubSeq(s, m, NonZeroOr(FirstWsWordWs(s, cuts, m + 1), Len(s) + 1) - 1))]

\* headliner.match(/(.+?)\s+(?:w\/|with)\s+(.+?)(?:\s+(?:cuts)\s+|$)/i),
\* for a text of one line
WithMatch(s, cuts) ==
    IF WithAt(s, 2) = 0 THEN NoMatch
    ELSE WithGroups(s, WithAt(s, 2),
                    SupportsStart(s, WithAt(s, 2), WithWordEnd(s, SkipWs(s, WithAt(s, 2)))),
                    cuts)

\* /,|\s+and\s+|\s+&\s+|\s*\/\s*/i
HeadingDelims ==
    << Delim("none", <<",">>, FALSE, "none"),
       Delim("plus", W_and, FALSE, "plus"),
       Delim("plus", <<"&">>, FALSE, "plus"),
       Delim("star", <<"/">>, FALSE, "star") >>

\* /,|\s+and\s+|\s+&\s+/i
LineDelims ==
    << Delim("none", <<",">>, FALSE, "none"),
       Delim("plus", W_and, FALSE, "plus"),
       Delim("plus", <<"&">>, FALSE, "plus") >>

\* .map(p => p.replace(/\s+(?:cuts)\s+.*/i, '').trim())
\* .filter(p => p.length > 2 && p.length < 100)
RECURSIVE SupportParts(_, _)
SupportParts(parts, cuts) ==
    IF parts = <<>> THEN <<>>
    ELSE IF Len(trim(CutAtWords(Head(parts), cuts))) > 2
            /\ Len(trim(CutAtWords(Head(parts), cuts))) < 100
         THEN << trim(CutAtWords(Head(parts), cuts)) >> \o SupportParts(Tail(parts), cuts)
    ELSE SupportParts(Tail(parts), cuts)

HeadingSupports(m, cuts) ==
    IF m.matched THEN SupportParts(split(m.supports, HeadingDelims), cuts) ELSE <<>>

\* /^(with|featuring|feat\.?|w\/)\s+/i: the alternatives in the order they
\* are tried
LinePrefixes ==
    << W_with, W_featuring, <<"f","e","a","t",".">>, W_feat, W_wSlash >>

\* position after the prefix and its white space (0 if the line has none)
RECURSIVE PrefixEnd(_, _)
PrefixEnd(line, prefixes) ==
    IF prefixes = <<>> THEN 0
    ELSE IF /\ AtCI(line, 1, Head(prefixes))
            /\ Len(Head(prefixes)) + 1 <= Len(line)
            /\ IsSpace(line[Len(Head(prefixes)) + 1])
         THEN SkipWs(line, Len(Head(prefixes)) + 1)
    ELSE PrefixEnd(line, Tail(prefixes))

\* first position >= i of "on" followed by white space (0 if none)
RECURSIVE FirstOn(_, _)
FirstOn(s, i) ==
    IF i + 2 > Len(s) THEN 0
    ELSE IF AtCI(s, i, W_on) /\ IsSpace(s[i + 2]) THEN i
    ELSE FirstOn(s, i + 1)

\* artistStr.replace(/\s*on\s+.*/i, '')
CutAtOn(s) ==
    IF FirstOn(s, 1) = 0 THEN s ELSE Upto(s, BackWs(s, FirstOn(s, 1)))

\* .replace(/\s+at\s+.*/i, '') and, for Empire, .replace(/\s+in\s+.*/i, '')
RECURSIVE CutAtEach(_, _)
CutAtEach(s, cutList) ==
    IF cutList = <<>> THEN s
    ELSE CutAtEach(CutAtWords(s, {Head(cutList)}), Tail(cutList))

\* artistStr of a line that starts with one of the prefixes
ArtistStr(line, cutList) ==
    CutAtEach(CutAtOn(trim(From(line, PrefixEnd(line, LinePrefixes)))), cutList)

\* the parts of a line that are pushed to supportingActs
RECURSIVE PushParts(_, _)
PushParts(supportingActs, parts) ==
    IF parts = <<>> THEN supportingActs
    ELSE IF /\ Len(Head(parts)) > 2 /\ Len(Head(parts)) < 100
            /\ Head(parts) \notin Range(supportingActs)
         THEN PushParts(Append(supportingActs, Head(parts)), Tail(parts))
    ELSE PushParts(supportingActs, Tail(parts))

\* the loop over the lines of the page from position i on
RECURSIVE LineSupports(_, _, _, _)
LineSupports(lines, i, supportingActs, cutList) ==
    IF i > Len(lines) THEN supportingActs
    ELSE IF PrefixEnd(lines[i], LinePrefixes) = 0
         THEN LineSupports(lines, i + 1, supportingActs, cutList)
    ELSE LineSupports(lines, i + 1,
             PushParts(supportingActs,
                 TrimAndFilter(split(ArtistStr(lines[i], cutList), LineDelims))),
             cutList)

\* end of /\d{1,2}:\d{2}\s*(am|pm)?/i at position d of s (0 if it fails)
ClockEndAt(s, d, c) ==
    IF c <= Len(s) /\ s[c] = ":" /\ TwoDigits(s, c + 1)
    THEN IF IsAmPm(s, SkipWs(s, c + 3)) THEN SkipWs(s, c + 3) + 2 ELSE SkipWs(s, c + 3)
    ELSE 0
ClockEnd(s, d) ==
    IF d > Len(s) \/ ~IsDigit(s[d]) THEN 0
    ELSE IF d + 1 <= Len(s) /\ IsDigit(s[d + 1]) /\ ClockEndAt(s, d, d + 2) # 0
         THEN ClockEndAt(s, d, d + 2)
    ELSE ClockEndAt(s, d, d + 1)

\* h.replace(/\s+\d{1,2}:\d{2}\s*(am|pm)?/i, ''), from position i on
RECURSIVE StripClock(_, _)
StripClock(h, i) ==
    IF i > Len(h) THEN h
    ELSE IF IsSpace(h[i]) /\ ClockEnd(h, SkipWs(h, i)) # 0
         THEN Upto(h, i) \o From(h, ClockEnd(h, SkipWs(h, i)))
    ELSE StripClock(h, i + 1)

\* first position >= i of a dash (0 if none)
RECURSIVE FirstDash(_, _)
FirstDash(h, i) ==
    IF i > Len(h) THEN 0
    ELSE IF h[i] \in {"-", "ndash"} THEN i
    ELSE FirstDash(h, i + 1)

\* h.replace(/\s*[\-ndash]\s*.*$/, '')
CutAtDash(h) ==
    IF FirstDash(h, 1) = 0 THEN h ELSE Upto(h, BackWs(h, FirstDash(h, 1)))

\* the chain of replace() calls on the headliner, once
HeadlinerPass(h, cutList) == CutAtEach(CutAtDash(StripClock(h, 1)), cutList)

\* the headliner as it is returned
FinalHeadliner(headliner, cutList, passes) ==
    IF ~Truthy(headliner) THEN headliner
    ELSE IF passes = 2 THEN trim(HeadlinerPass(HeadlinerPass(headliner, cutList), cutList))
    ELSE trim(HeadlinerPass(headliner, cutList))

\* the RawEvent of a detail page; m is the match of the title
DetailRawEvent(title, m, lines, cutList, passes, sourceUrl) ==
    RawEvent(FinalHeadliner(IF m.matched THEN m.mainArtist ELSE title, cutList, passes),
             Unique(LineSupports(lines, 1, HeadingSupports(m, Range(cutList)), cutList), <<>>),
             Null, sourceUrl)

\* a detail page: the title the calendar gave (null if none), the text of
\* the heading (null if none), and the lines of the page, trimmed, without
\* the empty ones
DetailEvent(page, cutList, passes, sourceUrl) ==
    << DetailRawEvent(OrElse(page.calendarTitle, OrElse(page.headingText, Null)),
                      IF Truthy(OrElse(page.calendarTitle, OrElse(page.headingText, Null)))
                      THEN WithMatch(OrElse(page.calendarTitle, page.headingText), Range(cutList))
                      ELSE NoMatch,
                      page.lines, cutList, passes, sourceUrl) >>

parishAustinEvent(page, sourceUrl) == DetailEvent(page, << W_at >>, 1, sourceUrl)

empireAtAustinEvent(page, sourceUrl) == DetailEvent(page, << W_at, W_in >>, 2, sourceUrl)

\* ------------------------------------------------------------------------
\* antones (calendar page of Antone's), src/unnamed/part_002
\* ------------------------------------------------------------------------
W_doors == <<"d","o","o","r","s">>
W_show == <<"s","h","o","w">>

\* the anchors with a text, one per href: the callback of page.$$eval
RECURSIVE AntonesEvents(_, _)
AntonesEvents(anchors, seen) ==
    IF anchors = <<>> THEN <<>>
    ELSE IF trim(Head(anchors).text) = <<>> \/ Head(anchors).href \in seen
         THEN AntonesEvents(Tail(anchors), seen)
    ELSE << [text |-> trim(Head(anchors).text), url |-> Head(anchors).href,
             calendarDate |-> Head(anchors).date] >>
         \o AntonesEvents(Tail(anchors), seen \cup {Head(anchors).href})

\* first position >= i of word followed by white space and a colon (0 if none)
RECURSIVE FirstLabel(_, _, _)
FirstLabel(s, word, i) ==
    IF i + Len(word) > Len(s) THEN 0
    ELSE IF AtCI(s, i, word) /\ SkipWs(s, i + Len(word)) <= Len(s)
            /\ s[SkipWs(s, i + Len(word))] = ":"
         THEN i
    ELSE FirstLabel(s, word, i + 1)

\* s.replace(/Doors\s*:/i, 'Doors:'), with the capitals of the replacement
TightLabelAt(s, word, label, i) ==
    IF i = 0 THEN s
    ELSE Upto(s, i) \o label \o From(s, SkipWs(s, i + Len(word)))
TightLabel(s, word, label) == TightLabelAt(s, word, label, FirstLabel(s, word, 1))

\* end of /\d{1,2}:?\d{0,2}\s*(am|pm)/i at position d of s (0 if it fails)
DigitsFrom(s, d, n) == \A k \in d..(d + n - 1) : k <= Len(s) /\ IsDigit(s[k])
\* a digits, c colons and b digits, then white space and am or pm
ClockFits(s, d, a, c, b) ==
    /\ DigitsFrom(s, d, a)
    /\ c = 1 => (d + a <= Len(s) /\ s[d + a] = ":")
    /\ DigitsFrom(s, d + a + c, b)
    /\ IsAmPm(s, SkipWs(s, d + a + c + b))
ClockShapes == (1..2) \X (0..1) \X (0..2)
ClockTimeEnds(s, d) ==
    { SkipWs(s, d + t[1] + t[2] + t[3]) + 2 :
        t \in { u \in ClockShapes : ClockFits(s, d, u[1], u[2], u[3]) } }

\* first position >= i where /word:\s*\d{1,2}:?\d{0,2}\s*(am|pm)/i matches
\* (0 if none)
RECURSIVE FirstTimed(_, _, _)
FirstTimed(s, word, i) ==
    IF i + Len(word) > Len(s) THEN 0
    ELSE IF /\ AtCI(s, i, word) /\ s[i + Len(word)] = ":"
            /\ ClockTimeEnds(s, SkipWs(s, i + Len(word) + 1)) # {}
         THEN i
    ELSE FirstTimed(s, word, i + 1)

\* the greatest end: each quantifier takes what it can
Greatest(S) == CHOOSE n \in S : \A m \in S : m <= n

\* s.replace(/word:\s*\d{1,2}:?\d{0,2}\s*(am|pm)/i, '')
StripTimedAt(s, word, i) ==
    IF i = 0 THEN s
    ELSE Upto(s, i) \o From(s, Greatest(ClockTimeEnds(s, SkipWs(s, i + Len(word) + 1))))
StripTimed(s, word) == StripTimedAt(s, word, FirstTimed(s, word, 1))

\* /\s+w\/?\s+|\s+with\s+|,|\s+&\s+|\s+and\s+/i
AntonesDelims ==
    << Delim("plus", <<"w", "/">>, FALSE, "plus"),
       Delim("plus", <<"w">>, FALSE, "plus"),
       Delim("plus", W_with, FALSE, "plus"),
       Delim("none", <<",">>, FALSE, "none"),
       Delim("plus", <<"&">>, FALSE, "plus"),
       Delim("plus", W_and, FALSE, "plus") >>

\* titlePart of parseEvent
TitlePart(text) ==
    trim(StripTimed(StripTimed(
             trim(TightLabel(TightLabel(CollapseWs(text), W_doors, <<"D","o","o","r","s">>),
                             W_show, <<"S","h","o","w">>)),
             W_doors), W_show))

\* parseEvent(text).headliner and .supportingActs, from the parts of the title
PartsEvent(parts, eventDateRaw, sourceUrl) ==
    RawEvent(IF parts = <<>> THEN Null ELSE Head(parts),
             IF parts = <<>> THEN <<>> ELSE Tail(parts),
             eventDateRaw, sourceUrl)

\* events.map((ev) => ({ ...parseEvent(ev.text), eventDateRaw, sourceUrl }));
\* doorsTime and showTime, which nothing reads, are left out
AntonesSummary(events, sourceUrl) ==
    [k \in 1..Len(events) |->
        PartsEvent(TrimAndFilter(split(TitlePart(events[k].text), AntonesDelims)),
                   OrElse(events[k].calendarDate, Null),
                   OrElse(events[k].url, sourceUrl))]

\* (ev.url || '').replace(/^#/, '') || null
DialogId(url) ==
    IF url # <<>> /\ url[1] = "#" THEN OrElse(Tail(url), Null) ELSE OrElse(url, Null)

\* (request.loadedUrl || request.url).split('#')[0]
BeforeHash(url) ==
    IF IndexOfFrom(url, "#", 1) = 0 THEN url ELSE Upto(url, IndexOfFrom(url, "#", 1))

AntonesDetailReqs(events, req) ==
    [k \in 1..Len(events) |->
        [url |-> BeforeHash(req.url) \o events[k].url,
         venueId |-> req.venueId, parserId |-> "antonesEvent",
         dialogId |-> DialogId(events[k].url),
         calendarDate |-> OrElse(events[k].calendarDate, Null),
         retryCount |-> 0]]

AntonesResult(events, req, withCrawler) ==
    IF events = <<>> THEN Parsed(events, <<>>, <<>>)
    ELSE IF withCrawler
    THEN Parsed(events, AntonesDetailReqs(events, req), AntonesSummary(events, req.url))
    ELSE Parsed(events, <<>>, AntonesSummary(events, req.url))

antones(anchors, req, withCrawler) == AntonesResult(AntonesEvents(anchors, {}), req, withCrawler)

\* ------------------------------------------------------------------------
\* continentalClubEvent (detail page of the Continental Club)
\* ------------------------------------------------------------------------
ScanAhead == 20
ScanFirst == 40
LongLineLength == 200
CandidateLineCap == 12
NameWordCap == 10

W_presentedBy == <<"p","r","e","s","e","n","t","e","d"," ","b","y">>
W_feats == <<"f","e","a","t","s">>

\* l.includes(sub)
Includes(l, sub) ==
    \E i \in 1..(Len(l) - Len(sub) + 1) : SubSeq(l, i, i + Len(sub) - 1) = sub

\* /\b(with|featuring|feat\.?|presented by)\b/i.test(l); "feat." before a
\* word character and "feat" before any other both have "feat" at a boundary
HasLineupWord(l) ==
    \E i \in 1..Len(l) :
        /\ WordBoundary(l, i)
        /\ \E w \in {W_with, W_featuring, W_feat, W_presentedBy} :
              AtCI(l, i, w) /\ WordBoundary(l, i + Len(w))

RECURSIVE IndexOfHeading(_, _, _)
IndexOfHeading(allLines, headingTitle, i) ==
    IF i > Len(allLines) THEN 0
    ELSE IF Includes(allLines[i], headingTitle) THEN i
    ELSE IndexOfHeading(allLines, headingTitle, i + 1)

RECURSIVE IndexOfLineupWord(_, _)
IndexOfLineupWord(allLines, i) ==
    IF i > Len(allLines) THEN 0
    ELSE IF HasLineupWord(allLines[i]) THEN i
    ELSE IndexOfLineupWord(allLines, i + 1)

\* startIndex, 1-based (0 if none)
EventStartIndex(allLines, headingTitle) ==
    NonZeroOr(IF Truthy(headingTitle) THEN IndexOfHeading(allLines, headingTitle, 1) ELSE 0,
              IndexOfLineupWord(allLines, 1))

Smaller(a, b) == IF a < b THEN a ELSE b

\* the loop after the start line, from position i to position last
RECURSIVE LinesAfterStart(_, _, _, _)
LinesAfterStart(allLines, i, last, candidateLines) ==
    IF i > last THEN candidateLines
    ELSE IF allLines[i] = <<>> THEN LinesAfterStart(allLines, i + 1, last, candidateLines)
    ELSE IF StopPattern(allLines[i]) THEN candidateLines
    ELSE IF AtCI(allLines[i], 1, W_www) THEN candidateLines
    ELSE IF Len(allLines[i]) > LongLineLength THEN candidateLines
    ELSE IF Len(candidateLines) + 1 >= CandidateLineCap
         THEN Append(candidateLines, allLines[i])
    ELSE LinesAfterStart(allLines, i + 1, last, Append(candidateLines, allLines[i]))

\* the loop over the first lines when there is no start line
LinesWithNames(allLines, i, last, candidateLines, pushed) ==
    IF pushed THEN Append(candidateLines, allLines[i]) ELSE candidateLines
RECURSIVE FirstLines(_, _, _, _)
FirstLines(allLines, i, last, candidateLines) ==
    IF i > last THEN candidateLines
    ELSE IF allLines[i] = <<>> THEN FirstLines(allLines, i + 1, last, candidateLines)
    ELSE IF StopPattern(allLines[i]) THEN candidateLines
    ELSE IF Len(LinesWithNames(allLines, i, last, candidateLines,
                HasLineupWord(allLines[i]) \/ (\E k \in 1..Len(allLines[i]) : allLines[i][k] = ",")))
            >= CandidateLineCap
         THEN LinesWithNames(allLines, i, last, candidateLines,
                HasLineupWord(allLines[i]) \/ (\E k \in 1..Len(allLines[i]) : allLines[i][k] = ","))
    ELSE FirstLines(allLines, i + 1, last,
             LinesWithNames(allLines, i, last, candidateLines,
                HasLineupWord(allLines[i]) \/ (\E k \in 1..Len(allLines[i]) : allLines[i][k] = ",")))

CandidateLines(allLines, startIndex) ==
    IF startIndex # 0
    THEN LinesAfterStart(allLines, startIndex + 1,
                         Smaller(Len(allLines), startIndex + ScanAhead - 1), <<>>)
    ELSE FirstLines(allLines, 1, Smaller(Len(allLines), ScanFirst), <<>>)

\* name.replace(/^[ndash-]\s*/, '').replace(/\s+/g, ' ').trim()
DashThenSpaces(name) == trim(CollapseWs(StripLeadDash(name)))

RECURSIVE DashThenSpacesEach(_)
DashThenSpacesEach(parts) ==
    IF parts = <<>> THEN <<>>
    ELSE IF DashThenSpaces(Head(parts)) = <<>> THEN DashThenSpacesEach(Tail(parts))
    ELSE << DashThenSpaces(Head(parts)) >> \o DashThenSpacesEach(Tail(parts))

KeepEventPart(part) ==
    /\ ~ \E w \in BoilerplateWords : AtCI(part, 1, w)
    /\ ~HasClockTime(part)
    /\ WordCount(part) <= NameWordCap

RECURSIVE EventCandidateNames(_)
EventCandidateNames(candidateLines) ==
    IF candidateLines = <<>> THEN <<>>
    ELSE IF DashThenSpaces(Head(candidateLines)) = <<>>
         THEN EventCandidateNames(Tail(candidateLines))
    ELSE SelectSeq(DashThenSpacesEach(
                       split(StripWith(DashThenSpaces(Head(candidateLines))), NameDelims)),
                   KeepEventPart)
         \o EventCandidateNames(Tail(candidateLines))

\* /^(featuring|feats?|with|presented by)\b/i.test(l) || /,\s*with\b/i.test(l)
\* || /feat\.?/i.test(l)
IsTimelyLine(l) ==
    \/ \E w \in {W_featuring, W_feats, W_feat, W_with, W_presentedBy} :
          AtCI(l, 1, w) /\ WordBoundary(l, Len(w) + 1)
    \/ \E i \in 1..Len(l) :
          l[i] = "," /\ AtCI(l, SkipWs(l, i + 1), W_with)
                     /\ WordBoundary(l, SkipWs(l, i + 1) + Len(W_with))
    \/ \E i \in 1..Len(l) : AtCI(l, i, W_feat)

\* rawLine.replace(/^(featuring|feats?|with|presented by)\s*/i, ''): the
\* alternatives in the order they are tried
TimelyPrefixes == << W_featuring, W_feats, W_feat, W_with, W_presentedBy >>
RECURSIVE StripTimelyPrefix(_, _)
StripTimelyPrefix(l, prefixes) ==
    IF prefixes = <<>> THEN l
    ELSE IF AtCI(l, 1, Head(prefixes)) THEN From(l, SkipWs(l, Len(Head(prefixes)) + 1))
    ELSE StripTimelyPrefix(l, Tail(prefixes))

\* the names of the lines of a Timely page, from position i to position last
RECURSIVE TimelyNames(_, _, _)
TimelyNames(allLines, i, last) ==
    IF i > last THEN <<>>
    ELSE IF ~IsTimelyLine(allLines[i]) THEN TimelyNames(allLines, i + 1, last)
    ELSE DashThenSpacesEach(
             split(DashThenSpaces(StripTimelyPrefix(allLines[i], TimelyPrefixes)), NameDelims))
         \o TimelyNames(allLines, i + 1, last)

\* candidateNames after the Timely block
WithTimelyNames(page, candidateNames) ==
    IF ~(page.isTimely /\ (candidateNames = <<>> \/ ~Truthy(page.headingTitle)))
    THEN candidateNames
    ELSE IF (candidateNames
             \o TimelyNames(page.allLines, 1, Smaller(Len(page.allLines), ScanFirst))) = <<>>
            /\ Truthy(page.headingTitle)
         THEN << page.headingTitle >>
    ELSE candidateNames \o TimelyNames(page.allLines, 1, Smaller(Len(page.allLines), ScanFirst))

\* unique = Array.from(new Set(candidateNames))
EventUnique(page) ==
    Unique(WithTimelyNames(page,
               EventCandidateNames(CandidateLines(page.allLines,
                   EventStartIndex(page.allLines, page.headingTitle)))), <<>>)

\* headliner and supportingActs; the test "headliner !== calendarTitle" is
\* never true when calendarTitle is set, so the supports stay unique.slice(1)
HeadlinerAndSupports(unique, calendarTitle, headingTitle) ==
    [headliner |-> OrElse(calendarTitle,
                          OrElse(IF unique = <<>> THEN Null ELSE unique[1],
                                 OrElse(headingTitle, Null))),
     supportingActs |-> Rest(unique)]

EventOf(hs, calendarDateText, sourceUrl) ==
    RawEvent(hs.headliner, hs.supportingActs, OrElse(calendarDateText, Null), sourceUrl)

\* page: headingTitle (null if none), allLines (trimmed, none empty) and
\* isTimely, as page.evaluate returns them
continentalClubEvent(page, req) ==
    << EventOf(HeadlinerAndSupports(EventUnique(page), req.calendarTitle, page.headingTitle),
               req.calendarDateText, req.url) >>

\* ------------------------------------------------------------------------
\* stubbsAustinEvent (detail page of Stubb's)
\* ------------------------------------------------------------------------
\* lines.find((l) => /^with\s+/i.test(l)) || null
RECURSIVE FindWithLine(_)
FindWithLine(lines) ==
    IF lines = <<>> THEN Null
    ELSE IF StripWith(Head(lines)) # Head(lines) THEN Head(lines)
    ELSE FindWithLine(Tail(lines))

\* namesStr.replace(/\.$/, '')
StripLastDot(namesStr) ==
    IF namesStr # <<>> /\ namesStr[Len(namesStr)] = "."
    THEN SubSeq(namesStr, 1, Len(namesStr) - 1) ELSE namesStr

\* /,| & | and /i
WithLineDelims ==
    << Delim("none", <<",">>, FALSE, "none"),
       Delim("none", <<" ", "&", " ">>, FALSE, "none"),
       Delim("none", <<" ", "a", "n", "d", " ">>, FALSE, "none") >>

WithLineParts(withLine) ==
    IF ~Truthy(withLine) THEN <<>>
    ELSE TrimAndFilter(split(StripLastDot(trim(StripWith(withLine))), WithLineDelims))

\* page: the trimmed non-empty lines of the body and the text of the heading
stubbsAustinEvent(page, req) ==
    << RawEvent(OrElse(req.calendarTitle, OrElse(page.titleText, Null)),
                WithLineParts(FindWithLine(page.lines)),
                OrElse(req.calendarDateText, Null), req.url) >>

\* ------------------------------------------------------------------------
\* The detail parsers in the crawl
\* ------------------------------------------------------------------------
\* what a detail page shows: the text of its heading and the lines of its body
EventViews ==
    { [heading |-> Null, lines |-> <<>>],
      [heading |-> <<"S","a","t","s","a","n","g">>,
       lines |-> << <<"S","a","t","s","a","n","g">>, <<"w","i","t","h"," ","A","n","a"," ","L","e","e"," ","&"," ","B","o"," ","D","i","d","d","l","e","y">> >>] }

\* venueParsers[parserKey]({ page, request }) for the detail parsers
DetailParserResult(parserKey, view, req) ==
    CASE parserKey = "comeAndTakeItEvent" ->
            comeAndTakeItEvent([lines |-> view.lines, heading |-> view.heading], req.url)
      [] parserKey = "continentalClubEvent" ->
            continentalClubEvent([headingTitle |-> view.heading, allLines |-> view.lines,
                                  isTimely |-> FALSE], req)
      [] parserKey = "stubbsAustinEvent" ->
            stubbsAustinEvent([titleText |-> view.heading, lines |-> view.lines], req)
      [] parserKey = "parishAustinEvent" ->
            parishAustinEvent([calendarTitle |-> req.calendarTitle,
                               headingText |-> view.heading, lines |-> view.lines], req.url)
      [] parserKey = "empireAtAustinEvent" ->
            empireAtAustinEvent([calendarTitle |-> req.calendarTitle,
                                 headingText |-> view.heading, lines |-> view.lines], req.url)

\* a detail parser returns its RawEvents; none of them calls addRequests
RunDetailParser(view) ==
    /\ pc = "parse" /\ ParserKey(cur) \in DetailParsers
    /\ Returned(Parsed(<<>>, <<>>, DetailParserResult(ParserKey(cur), view, cur)))
    /\ UNCHANGED <<stages, logs, call, ret, pool>>

Next ==
    \/ \E i \in 1..Len(queue) : HandleMissingParser(i)
    \/ \E i \in 1..Len(queue) : HandleInheritedKey(i)
    \/ \E i \in 1..Len(queue) : BeginHandle(i)
    \/ \E i \in 1..Len(queue) : NavigationFails(i)
    \/ \E v \in Venues : Probe(v)
    \/ \E anchors \in SeqUpTo(Anchors, MaxAnchors) : RunParishAustin(anchors)
    \/ \E anchors \in SeqUpTo(Anchors, MaxAnchors) : RunEmpireAtAustin(anchors)
    \/ \E anchors \in SeqUpTo(Anchors, MaxAnchors) : RunStubbsAustin(anchors)
    \/ \E cards \in SeqUpTo(Cards, MaxCards) : RunMohawkAustin(cards)
    \/ \E resp \in ApiResponses : RunApiStage(resp)
    \/ \E view \in MonthViews : RunMonthStage(view)
    \/ \E dom \in DomPages : RunDomStage(dom)
    \/ \E page \in EmosPages : RunEmosAustin(page)
    \/ \E view \in EventViews : RunDetailParser(view)
    \/ ParserThrows
    \/ Finish

Spec == Init /\ [][Next]_vars

\* the crawler takes a request of the queue: its page fails to load, or
\* requestHandler starts
TakeRequest(i) ==
    \/ HandleMissingParser(i) \/ HandleInheritedKey(i) \/ BeginHandle(i)
    \/ NavigationFails(i)

\* crawler.run takes requests as long as the queue holds any, and no
\* invocation lasts for ever (requestHandlerTimeoutSecs: 180)
FairSpec ==
    /\ Spec
    /\ WF_vars(\E i \in 1..Len(queue) : TakeRequest(i))
    /\ []<>(pc = "idle")

\* ------------------------------------------------------------------------
\* A run on the default input
\* ------------------------------------------------------------------------
\* const { venues = [ ... ] } = input: the venues of a run whose input names
\* none
DefaultVenues ==
    << Venue("mohawkAustin", "https://mohawkaustin.com/", NoVal),
       Venue("comeAndTakeIt", "https://comeandtakeitproductions.com/calendar/",
             "comeAndTakeItEvent"),
       Venue("continentalClubAustin", "https://continentalclub.com/austin/",
             "continentalClubEvent"),
       Venue("parishAustin", "https://parishaustin.com/calendar/", "parishAustinEvent"),
       Venue("empireAtAustin", "https://empireatx.com/calendar/", "empireAtAustin"),
       Venue("stubbsAustin", "https://stubbsaustin.com/concert-listings/",
             "stubbsAustinEvent"),
       Venue("emosAustin", "https://www.emosaustin.com/shows/", NoVal),
       Venue("scootInn", "https://www.scootinnaustin.com/shows/", NoVal),
       Venue("antones", "https://antonesnightclub.com/calendar/", NoVal) >>

DefaultInit ==
    /\ queue = [k \in 1..Len(DefaultVenues) |-> StartRequest(DefaultVenues[k])]
    /\ cur = NoRequest
    /\ hasCrawler = FALSE
    /\ pc = "idle"
    /\ parsed = NothingParsed
    /\ stages = <<>>
    /\ normalizedRows = <<>>
    /\ batch = <<>>
    /\ logs = {}
    /\ outcome = "none"
    /\ stats = [added |-> Len(queue), finished |-> 0, failed |-> 0]
    /\ call = NoCall
    /\ ret = <<>>
    /\ NoPool

\* the run with every page loading and no parser throwing, the requests
\* taken in the order of the queue
DefaultNext ==
    \/ queue # <<>> /\ HandleMissingParser(1)
    \/ queue # <<>> /\ BeginHandle(1)
    \/ \E cards \in SeqUpTo(Cards, 1) : RunMohawkAustin(cards)
    \/ \E anchors \in SeqUpTo(Anchors, 1) : RunEmpireAtAustin(anchors)
    \/ \E view \in EventViews : RunDetailParser(view)
    \/ \E page \in { p \in EmosPages : Len(p.scripts) <= 1 } : RunEmosAustin(page)
    \/ Finish

DefaultSpec == DefaultInit /\ [][DefaultNext]_vars

\* ------------------------------------------------------------------------
\* Direct calls of the functions of main.js, outside a crawl
\* ------------------------------------------------------------------------
MaxActs == 3
MaxStrLen == 3

\* all strings over the characters of chars, of length at most n
Strings(chars, n) == UNION { [1..k -> chars] : k \in 0..n }

\* names as cleanArtist may be given them: every short string over the
\* characters its patterns look at, and longer samples
CleanChars == {"a", " ", ",", ":", "-", "@", "7", "(", ")"}
CleanSamples ==
    { <<"A"," ","@","7","p","m"," ","@","9","p","m">>,
      <<"A"," ","-"," ","B"," ","-"," ","C">>,
      <<"X",":"," ","Y"," ","P","r","e","s","e","n","t","s",":"," ","Z">>,
      <<"P"," ","P","r","e","s","e","n","t","s",":"," ","Q"," ","P","r","e","s","e","n","t","s",":"," ","R">>,
      <<" ","T","h","e"," ","B","a","n","d"," ",","," ">>,
      <<"B","a","n","d"," ","(","L","i","v","e",")",":"," ","T","h","e"," ","B","i","g"," ","T","o","u","r"," ","2","0","2","5">>,
      <<"B","a","n","d"," ","a","t"," ","7","p","m"," ","a","t"," ","8","p","m">>,
      <<"B","a","n","d"," ","-"," ","L","i","v","e",","," ","T","o","n","i","g","h","t">> }
CleanInputs == {Null} \cup Strings(CleanChars, MaxStrLen) \cup CleanSamples

\* titles as splitParts may be given them
SplitChars == {"a", " ", ",", "&", "/", "@", "7", "(", ")"}
SplitSamples ==
    { <<"A"," ","w","/"," ","B",","," ","C">>,
      <<"A"," ","&"," ","B"," ","a","n","d"," ","C">>,
      <<"B","a","n","d"," ","@"," ","(","I","n","s","i","d","e",")"," ","8","p","m">>,
      <<"A"," ","w","i","t","h"," ","B"," ","f","e","a","t","."," ","C">>,
      <<"A"," ","+"," ","B"," ","/"," ","C">>,
      <<"A"," ","f","e","a","t","u","r","i","n","g"," ","B"," ","(","x",")"," ","@"," ","7",":","0","0"," ","p","m">> }
SplitInputs == {Null} \cup Strings(SplitChars, MaxStrLen) \cup SplitSamples

\* a 12-hour clock string: the hour, ":MM" unless mm is NoMinutes, sp spaces
\* and the meridiem as written
ClockText(h, mm, sp, meridiem) ==
    (IF h >= 10 THEN << DigitsSeq[(h \div 10) + 1] >> ELSE <<>>)
    \o << DigitsSeq[(h % 10) + 1] >>
    \o (IF mm = NoMinutes THEN <<>>
        ELSE << ":", DigitsSeq[(mm \div 10) + 1], DigitsSeq[(mm % 10) + 1] >>)
    \o [k \in 1..sp |-> " "]
    \o meridiem

Meridiems == { <<"a","m">>, <<"p","m">>, <<"A","M">>, <<"P","m">> }

ClockTimes ==
    { [kind |-> "clock", h |-> h, mm |-> mm, pm |-> LowerChar(mer[1]) = "p",
       text |-> ClockText(h, mm, sp, mer)] :
        h \in 1..12, mm \in {NoMinutes, 0, 5, 30, 59}, sp \in 0..1, mer \in Meridiems }

\* time texts that hold no am/pm time
OtherTimes ==
    { [kind |-> "other", h |-> 0, mm |-> 0, pm |-> FALSE, text |-> t] :
        t \in { Null, <<>>, <<"t","b","a">>, <<"7",":","0","0">>,
                <<"1","9",":","3","0">>, <<"D","o","o","r","s"," ","7">>,
                <<"p","m">>, <<"7",":","p","m">> } }

\* the rows of one date as nodes.forEach leaves them: the minutes of each,
\* domIndex in the order of the document
ActsWith(minutes) == [k \in 1..Len(minutes) |-> [minutes |-> minutes[k], domIndex |-> k - 1]]
ActLists == { ActsWith(m) : m \in SeqUpTo({NoMinutes, 0, 420, 1290}, MaxActs) }

\* event pages of Come and Take It Productions
MaxPageLines == 4
LongLine == [k \in 1..(MaxLineLength + 1) |-> "x"]
Line80 == [k \in 1..MaxLineLength |-> "y"]
LinePool ==
    { <<"C","o","m","e"," ","a","n","d"," ","T","a","k","e"," ","I","t"," ","P","r","o","d","u","c","t","i","o","n","s"," ","p","r","e","s","e","n","t","s">>,
      <<"B","a","n","d"," ","A","l","p","h","a">>,
      <<"B","a","n","d"," ","B","e","t","a",","," ","B","a","n","d"," ","G","a","m","m","a">>,
      <<"T","i","c","k","e","t","s"," ","$","1","0">>,
      <<"w","w","w",".","v","e","n","u","e",".","c","o","m">>,
      LongLine }
HeadingTitles == { Null, <<"C","o","m","e"," ","a","n","d"," ","T","a","k","e"," ","I","t"," ","P","r","o","d","u","c","t","i","o","n","s"," ","P","r","e","s","e","n","t","s",":"," ","B","a","n","d"," ","Z","e","t","a">> }
PageSamples ==
    { [lines |-> << <<"C","o","m","e"," ","a","n","d"," ","T","a","k","e"," ","I","t"," ","P","r","o","d","u","c","t","i","o","n","s"," ","p","r","e","s","e","n","t","s">>,
                 <<"B","a","n","d"," ","A","l","p","h","a">>,
                 <<"B","a","n","d"," ","B","e","t","a",","," ","B","a","n","d"," ","G","a","m","m","a">>,
                 <<"T","i","c","k","e","t","s"," ","$","1","0">> >>,
       heading |-> Null],
      [lines |-> << <<"H","o","m","e">>,
                 <<"S","a","t","u","r","d","a","y",","," ","M","a","y"," ","3">>,
                 <<"C","O","M","E"," ","A","N","D"," ","T","A","K","E"," ","I","T"," ","P","R","O","D","U","C","T","I","O","N","S"," ","P","R","E","S","E","N","T","S",":">>,
                 <<"-"," ","B","a","n","d"," ","A","l","p","h","a">>,
                 <<"w","i","t","h"," ","B","a","n","d"," ","B","e","t","a"," ","&"," ","B","a","n","d"," ","G","a","m","m","a"," ","a","n","d"," ","B","a","n","d"," ","A","l","p","h","a"," ","+"," ","B","a","n","d"," ","D","e","l","t","a">>,
                 <<"D","o","o","r","s"," ","7",":","0","0"," ","p","m">>,
                 <<"B","a","n","d"," ","O","m","e","g","a">> >>,
       heading |-> Null],
      [lines |-> << <<"C","o","m","e"," ","a","n","d"," ","T","a","k","e"," ","I","t"," ","P","r","o","d","u","c","t","i","o","n","s"," ","p","r","e","s","e","n","t","s">>,
                 <<"B","a","n","d"," ","1">>,
                 <<"B","a","n","d"," ","2">>,
                 <<"B","a","n","d"," ","3">>,
                 <<"B","a","n","d"," ","4">>,
                 <<"B","a","n","d"," ","5">>,
                 <<"B","a","n","d"," ","6">>,
                 <<"B","a","n","d"," ","7">>,
                 <<"B","a","n","d"," ","8">>,
                 <<"B","a","n","d"," ","9">>,
                 <<"B","a","n","d"," ","1","0">> >>,
       heading |-> Null],
      [lines |-> << <<"C","o","m","e"," ","a","n","d"," ","T","a","k","e"," ","I","t"," ","P","r","o","d","u","c","t","i","o","n","s"," ","p","r","e","s","e","n","t","s">>,
                 <<"S","h","o","w"," ","s","t","a","r","t","s"," ","8",":","0","0"," ","p","m">>,
                 <<"o","n","e"," ","t","w","o"," ","t","h","r","e","e"," ","f","o","u","r"," ","f","i","v","e"," ","s","i","x"," ","s","e","v","e","n"," ","e","i","g","h","t"," ","n","i","n","e">>,
                 Line80,
                 <<"B","a","n","d"," ","B","e","t","a",","," ","D","e","t","a","i","l","s"," ","i","n","s","i","d","e">>,
                 <<"w","w","w",".","s","i","t","e",".","c","o","m">>,
                 <<"B","a","n","d"," ","L","a","t","e">> >>,
       heading |-> Null],
      [lines |-> << <<"B","a","n","d"," ","A","l","p","h","a">>,
                 <<"T","i","c","k","e","t","s">> >>,
       heading |-> <<"C","o","m","e"," ","a","n","d"," ","T","a","k","e"," ","I","t"," ","P","r","o","d","u","c","t","i","o","n","s"," ","p","r","e","s","e","n","t","s",":"," ","B","a","n","d"," ","Z","e","t","a">>],
      [lines |-> << <<"C","o","m","e"," ","a","n","d"," ","T","a","k","e"," ","I","t"," ","P","r","o","d","u","c","t","i","o","n","s"," ","p","r","e","s","e","n","t","s">> >>,
       heading |-> Null],
      [lines |-> << <<"C","o","m","e"," ","a","n","d"," ","T","a","k","e"," ","I","t"," ","P","r","o","d","u","c","t","i","o","n","s"," ","p","r","e","s","e","n","t","s">>,
                 <<"B","a","n","d"," ","A","l","p","h","a">>,
                 <<"O","n","s","a","l","e"," ","n","o","w">>,
                 <<"B","a","n","d"," ","B","e","t","a">> >>,
       heading |-> Null],
      [lines |-> << <<"C","o","m","e"," ","a","n","d"," ","T","a","k","e"," ","I","t"," ","P","r","o","d","u","c","t","i","o","n","s"," ","p","r","e","s","e","n","t","s">>,
                 <<"B","a","n","d"," ","A","l","p","h","a">>,
                 LongLine,
                 <<"B","a","n","d"," ","B","e","t","a">> >>,
       heading |-> Null] }
Pages ==
    PageSamples
    \cup { [lines |-> l, heading |-> h] : l \in SeqUpTo(LinePool, MaxPageLines), h \in HeadingTitles }
EventUrl == "https://comeandtakeitproductions.com/event/1"

\* detail pages of The Parish and of Empire
ActNames ==
    { <<"S","a","t","s","a","n","g">>,
      <<"T","i","m"," ","S","n","i","d","e","r">>,
      <<"B","l","i","n","k","-","1","8","2">>,
      <<"U","2">>,
      <<"A","n","a"," ","L","e","e">> }
WithWords == { <<"w","/">>, <<"w","i","t","h">> }
\* the text "X w/ Y" or "X with Y"
XWithY(x, w, y) == x \o <<" ">> \o w \o <<" ">> \o y
Titles ==
    { XWithY(x, w, y) : x \in ActNames, w \in WithWords, y \in ActNames }
    \cup { <<"S","a","t","s","a","n","g">>,
            <<"S","a","t","s","a","n","g"," ","w","/"," ","T","i","m"," ","S","n","i","d","e","r",","," ","A","n","a"," ","L","e","e"," ","&"," ","B","o"," ","D","i","d","d","l","e","y"," ","a","t"," ","E","m","p","i","r","e">>,
            <<"S","a","t","s","a","n","g"," ","8",":","0","0"," ","p","m"," ","-"," ","A","l","b","u","m"," ","R","e","l","e","a","s","e">> }
DetailLines ==
    { <<>>,
      << <<"w","i","t","h"," ","T","i","m"," ","S","n","i","d","e","r">> >>,
      << <<"D","o","o","r","s"," ","7","p","m">>,
         <<"f","e","a","t","u","r","i","n","g"," ","A","n","a"," ","L","e","e"," ","a","n","d"," ","T","i","m"," ","S","n","i","d","e","r",","," ","B","o"," ","D","i","d","d","l","e","y">>,
         <<"w","/"," ","S","i","m","o","n"," ","J","o","n","e","s"," ","a","t"," ","9">> >> }
DetailPages ==
    { [calendarTitle |-> t, headingText |-> Null, lines |-> l] : t \in Titles, l \in DetailLines }
    \cup { [calendarTitle |-> Null, headingText |-> t, lines |-> l] :
               t \in Titles \cup {Null}, l \in DetailLines }
    \cup { [calendarTitle |-> t, headingText |-> <<"A","n","a"," ","L","e","e"," ","w","i","t","h"," ","U","2">>, lines |-> <<>>] : t \in Titles }
DetailUrl == "https://parishaustin.com/event/1"

\* summary RawEvents of a calendar parser: the headliner is the title of the
\* calendar entry, "A w/ B, C" or "A with B, C"
PlainNames == { <<"S","a","t","s","a","n","g">>, <<"T","i","m"," ","S","n","i","d","e","r">>, <<"A","n","a"," ","L","e","e">> }
Compound(a, w, b, c) == XWithY(a, w, b) \o <<",", " ">> \o c
SummaryItems ==
    { RawEvent(Compound(a, w, b, c), <<>>, Null, NoVal) :
          a \in PlainNames, w \in WithWords, b \in PlainNames, c \in PlainNames }
    \cup { RawEvent(a, <<>>, Null, NoVal) : a \in PlainNames }
\* RawEvents of a detail parser: a headliner and a list of supporting acts
MaxSupports == 2
SupportNames == { <<"T","i","m"," ","S","n","i","d","e","r">>, <<"T","I","M"," ","S","N","I","D","E","R">>, <<"A","n","a"," ","L","e","e">>, Null }
DetailItems ==
    { RawEvent(h, acts, Null, NoVal) :
          h \in { <<"S","a","t","s","a","n","g">>, <<"S","a","t","s","a","n","g"," ","&"," ","t","i","m"," ","s","n","i","d","e","r">> },
          acts \in SeqUpTo(SupportNames, MaxSupports) }
CalendarRequest == StartRequest(Venue("parishAustin", "https://parishaustin.com/calendar/", NoVal))

\* calendar pages of Antone's: the elements the selector matches
MaxEventAnchors == 2
EventAnchors ==
    { [text |-> <<"S","m","a","l","l","p","o","o","l","s"," ","w","/"," ","K","e","v","i","a","n"," ","K","r","a","e","m","e","r"," ","&"," ","T","h","e"," ","R","o","m","a","n","c","e"," ","D","o","o","r","s",":"," ","7","p","m">>, href |-> <<"#","t","w","-","e","v","e","n","t","-","d","i","a","l","o","g","-","1">>, date |-> <<"2","0","2","5","-","0","5","-","0","2">>],
      [text |-> <<" ","S","a","t","s","a","n","g"," ">>, href |-> <<"#","t","w","-","e","v","e","n","t","-","d","i","a","l","o","g","-","2">>, date |-> Null],
      [text |-> <<"A","n","a"," ","L","e","e"," ","w","i","t","h"," ","B","o"," ","D","i","d","d","l","e","y"," ","D","o","o","r","s"," ",":"," ","7","p","m">>, href |-> <<"#","t","w","-","e","v","e","n","t","-","d","i","a","l","o","g","-","1">>, date |-> <<"1","2">>],
      [text |-> <<" "," ">>, href |-> <<"#","t","w","-","e","v","e","n","t","-","d","i","a","l","o","g","-","3">>, date |-> Null],
      [text |-> <<"T","i","m"," ","S","n","i","d","e","r",","," ","A","n","a"," ","L","e","e"," ","a","n","d"," ","S","a","t","s","a","n","g"," ","S","h","o","w",":"," ","1","0","3","0"," ","P","M">>, href |-> <<>>, date |-> <<"2","0","2","5","-","0","5","-","0","3">>] }
AntonesRequest ==
    [url |-> <<"h","t","t","p","s",":","/","/","a","n","t","o","n","e","s","n","i","g","h","t","c","l","u","b",".","c","o","m","/","c","a","l","e","n","d","a","r","/","#","t","o","p">>, venueId |-> "antones",
     parserId |-> "antones", retryCount |-> 0]
AntonesCalls ==
    { [anchors |-> a, hasCrawler |-> c] :
          a \in SeqUpTo(EventAnchors, MaxEventAnchors), c \in BOOLEAN }

\* event pages of the Continental Club, and the titles the calendar gave
VeryLongLine == [k \in 1..(LongLineLength + 1) |-> "x"]
EventPages ==
    { [headingTitle |-> <<"S","a","t","s","a","n","g">>, isTimely |-> FALSE,
       allLines |-> << <<"H","o","m","e">>,
                      <<"S","a","t","s","a","n","g">>,
                      <<"T","i","m"," ","S","n","i","d","e","r">>,
                      <<"A","n","a"," ","L","e","e",","," ","B","o"," ","D","i","d","d","l","e","y">>,
                      <<"T","i","c","k","e","t","s"," ","$","1","0">>,
                      <<"L","a","t","e"," ","B","a","n","d">> >>],
      [headingTitle |-> <<"S","a","t","s","a","n","g">>, isTimely |-> FALSE,
       allLines |-> << <<"S","a","t","s","a","n","g">>,
                      <<"w","i","t","h"," ","T","i","m"," ","S","n","i","d","e","r"," ","&"," ","A","n","a"," ","L","e","e">>,
                      <<"8",":","0","0"," ","p","m"," ","S","h","o","w">>,
                      <<"w","w","w",".","c","o","n","t","i","n","e","n","t","a","l","c","l","u","b",".","c","o","m">> >>],
      [headingTitle |-> <<"S","a","t","s","a","n","g">>, isTimely |-> FALSE,
       allLines |-> << <<"S","a","t","s","a","n","g">>,
                      <<"T","i","m"," ","S","n","i","d","e","r">>,
                      VeryLongLine,
                      <<"A","n","a"," ","L","e","e">> >>],
      [headingTitle |-> Null, isTimely |-> FALSE,
       allLines |-> << <<"C","a","l","e","n","d","a","r">>,
                      <<"T","i","m"," ","S","n","i","d","e","r",","," ","A","n","a"," ","L","e","e">>,
                      <<"f","e","a","t","u","r","i","n","g"," ","B","o"," ","D","i","d","d","l","e","y">>,
                      <<"D","o","o","r","s"," ","7","p","m">>,
                      <<"w","i","t","h"," ","L","a","t","e"," ","B","a","n","d">> >>],
      [headingTitle |-> Null, isTimely |-> TRUE,
       allLines |-> << <<"S","a","t","s","a","n","g">>,
                      <<"f","e","a","t","."," ","T","i","m"," ","S","n","i","d","e","r"," ","a","n","d"," ","A","n","a"," ","L","e","e">>,
                      <<"T","i","c","k","e","t","s">> >>],
      [headingTitle |-> <<"S","a","t","s","a","n","g">>, isTimely |-> TRUE,
       allLines |-> << <<"U","p","c","o","m","i","n","g">>,
                      <<"T","i","c","k","e","t","s">> >>],
      [headingTitle |-> <<"S","a","t","s","a","n","g">>, isTimely |-> FALSE,
       allLines |-> << <<"S","a","t","s","a","n","g">>,
                      <<"B","a","n","d"," ","1">>,
                      <<"B","a","n","d"," ","2">>,
                      <<"B","a","n","d"," ","3">>,
                      <<"B","a","n","d"," ","4">>,
                      <<"B","a","n","d"," ","5">>,
                      <<"B","a","n","d"," ","6">>,
                      <<"B","a","n","d"," ","7">>,
                      <<"B","a","n","d"," ","8">>,
                      <<"B","a","n","d"," ","9">>,
                      <<"B","a","n","d"," ","1","0">>,
                      <<"B","a","n","d"," ","1","1">>,
                      <<"B","a","n","d"," ","1","2">>,
                      <<"B","a","n","d"," ","1","3">> >>],
      [headingTitle |-> Null, isTimely |-> FALSE,
       allLines |-> <<  >>] }
CalendarTitles == { Null, <<"S","a","t","s","a","n","g">>, <<"T","i","m"," ","S","n","i","d","e","r">>, <<"S","a","t","s","a","n","g"," ","w","/"," ","T","i","m"," ","S","n","i","d","e","r">> }
EventRequests ==
    { Request("https://continentalclub.com/event/1", "continentalClubAustin",
              "continentalClubEvent", t, d) :
          t \in CalendarTitles, d \in { Null, <<"M","a","y"," ","2",","," ","2","0","2","5">> } }
EventCalls == { [page |-> p, req |-> r] : p \in EventPages, r \in EventRequests }

Calls ==
    { [fn |-> "parseTimeToMinutes", arg |-> a] : a \in ClockTimes \cup OtherTimes }
    \cup { [fn |-> "sort", arg |-> a] : a \in ActLists }
    \cup { [fn |-> "cleanArtist", arg |-> a] : a \in CleanInputs }
    \cup { [fn |-> "splitParts", arg |-> a] : a \in SplitInputs }
    \cup { [fn |-> "comeAndTakeItEvent", arg |-> a] : a \in Pages }
    \cup { [fn |-> "antones", arg |-> a] : a \in AntonesCalls }
    \cup { [fn |-> "continentalClubEvent", arg |-> a] : a \in EventCalls }
    \cup { [fn |-> "normalize", arg |-> a] : a \in SummaryItems \cup DetailItems }
    \cup { [fn |-> f, arg |-> a] : f \in {"parishAustinEvent", "empireAtAustinEvent"},
                                  a \in DetailPages }

CallInit ==
    /\ queue = <<>>
    /\ cur = NoRequest
    /\ hasCrawler = FALSE
    /\ pc = "idle"
    /\ parsed = NothingParsed
    /\ stages = <<>>
    /\ normalizedRows = <<>>
    /\ batch = <<>>
    /\ logs = {}
    /\ outcome = "none"
    /\ stats = [added |-> 0, finished |-> 0, failed |-> 0]
    /\ call \in Calls
    /\ ret = <<>>
    /\ NoPool

\* the function called returns value
Returns(value) ==
    /\ ret' = Append(ret, value)
    /\ UNCHANGED <<queue, cur, hasCrawler, pc, parsed, stages, normalizedRows, batch, logs,
                   outcome, stats, call, pool>>

CallParseTimeToMinutes ==
    /\ call.fn = "parseTimeToMinutes" /\ ret = <<>>
    /\ Returns(parseTimeToMinutes(call.arg.text))

CallSort ==
    /\ call.fn = "sort" /\ ret = <<>>
    /\ Returns(SortByTime(call.arg))

CallCleanArtist ==
    /\ call.fn = "cleanArtist" /\ ret = <<>>
    /\ Returns(cleanArtist(call.arg))

\* cleanArtist applied to a name it returned
CallCleanArtistAgain ==
    /\ call.fn = "cleanArtist" /\ Len(ret) = 1 /\ ret[1] # Null
    /\ Returns(cleanArtist(ret[1]))

CallSplitParts ==
    /\ call.fn = "splitParts" /\ ret = <<>>
    /\ Returns(splitParts(call.arg))

\* splitParts applied to each of the parts it returned
CallSplitPartsAgain ==
    /\ call.fn = "splitParts" /\ Len(ret) = 1
    /\ Returns([k \in 1..Len(ret[1]) |-> splitParts(ret[1][k])])

CallComeAndTakeItEvent ==
    /\ call.fn = "comeAndTakeItEvent" /\ ret = <<>>
    /\ Returns(comeAndTakeItEvent(call.arg, EventUrl))

CallParishAustinEvent ==
    /\ call.fn = "parishAustinEvent" /\ ret = <<>>
    /\ Returns(parishAustinEvent(call.arg, DetailUrl))

CallEmpireAtAustinEvent ==
    /\ call.fn = "empireAtAustinEvent" /\ ret = <<>>
    /\ Returns(empireAtAustinEvent(call.arg, DetailUrl))

\* the flatMap of requestHandler on the RawEvents of one page
CallNormalize ==
    /\ call.fn = "normalize" /\ ret = <<>>
    /\ Returns(NormalizedRows(<< call.arg >>, CalendarRequest, ParserKey(CalendarRequest)))

CallAntones ==
    /\ call.fn = "antones" /\ ret = <<>>
    /\ Returns(antones(call.arg.anchors, AntonesRequest, call.arg.hasCrawler))

CallContinentalClubEvent ==
    /\ call.fn = "continentalClubEvent" /\ ret = <<>>
    /\ Returns(continentalClubEvent(call.arg.page, call.arg.req))

CallNext ==
    \/ CallParseTimeToMinutes
    \/ CallSort
    \/ CallCleanArtist
    \/ CallCleanArtistAgain
    \/ CallSplitParts
    \/ CallSplitPartsAgain
    \/ CallComeAndTakeItEvent
    \/ CallParishAustinEvent
    \/ CallEmpireAtAustinEvent
    \/ CallNormalize
    \/ CallAntones
    \/ CallContinentalClubEvent

CallSpec == CallInit /\ [][CallNext]_vars

\* ------------------------------------------------------------------------
\* The pool of the crawler: several invocations of requestHandler under way
\* at once.  An invocation is suspended where it awaits: while its parser
\* runs, and while Actor.pushData runs.  What lies between two awaits is one
\* step.
\* ------------------------------------------------------------------------
PoolVenues ==
    << Venue("mohawkAustin", "https://mohawkaustin.com/", NoVal),
       Venue("stubbsAustin", "https://stubbsaustin.com/concert-listings/", NoVal),
       Venue("scootInn", "https://www.scootinnaustin.com/shows/", NoVal) >>

\* what a parser may return for a page
PoolItems ==
    { <<>>,
      << RawEvent(<<"S","a","t","s","a","n","g">>, <<>>, Null, NoVal) >>,
      << RawEvent(<<"A","n","a"," ","L","e","e">>, <<>>, Null, NoVal),
         RawEvent(<<"S","a","t","s","a","n","g">>, <<>>, Null, NoVal) >>,
      << RawEvent(<<"S","A","T","S","A","N","G">>, << <<"S","a","t","s","a","n","g">> >>, Null, NoVal) >> }

PoolInit ==
    /\ \E n \in 2..Len(PoolVenues) : queue = [k \in 1..n |-> StartRequest(PoolVenues[k])]
    /\ cur = NoRequest
    /\ hasCrawler = FALSE
    /\ pc = "idle"
    /\ parsed = NothingParsed
    /\ stages = <<>>
    /\ normalizedRows = <<>>
    /\ batch = <<>>
    /\ logs = {}
    /\ outcome = "none"
    /\ stats = [added |-> Len(queue), finished |-> 0, failed |-> 0]
    /\ call = NoCall
    /\ ret = <<>>
    /\ NoPool

KeysOf(rows) == { dedupeKey(rows[k].artistName) : k \in 1..Len(rows) }

\* a Set of keys that every invocation adds to
SharedSeen(kept) == kept

\* const seen = new Set(): whatever other invocations have kept
NewSeen(kept) == {}

\* the crawler gives the next request to a free slot; the handler runs up to
\* "await parser(...)"
PoolBegin(h) ==
    /\ queue # <<>>
    /\ running[h].pc = "idle"
    /\ running' = [running EXCEPT ![h] = [IdleSlot EXCEPT !.pc = "parse", !.req = Head(queue)]]
    /\ queue' = Tail(queue)
    /\ UNCHANGED <<cur, hasCrawler, pc, parsed, stages, normalizedRows, batch, logs, outcome,
                   stats, call, ret, sink, seenKeys>>

\* the rows of the invocation of slot h once its parser has returned rawItems
PoolRows(h, rawItems) ==
    DedupeFrom(NormalizedRows(rawItems, running[h].req, ParserKey(running[h].req)),
               NewSeen(seenKeys))

\* the handler from the return of the parser to "await Actor.pushData", or
\* to its return when there is nothing to push
PoolParsed(h, rawItems) ==
    /\ running[h].pc = "parse"
    /\ running' = [running EXCEPT ![h] =
                      IF PoolRows(h, rawItems) = <<>> THEN IdleSlot
                      ELSE [@ EXCEPT !.pc = "push", !.rawItems = rawItems,
                                     !.rows = PoolRows(h, rawItems)]]
    /\ seenKeys' = seenKeys \cup KeysOf(PoolRows(h, rawItems))
    /\ stats' = IF PoolRows(h, rawItems) = <<>>
                THEN [stats EXCEPT !.finished = @ + 1] ELSE stats
    /\ UNCHANGED <<queue, cur, hasCrawler, pc, parsed, stages, normalizedRows, batch, logs,
                   outcome, call, ret, sink>>

\* Actor.pushData returns and the handler with it
PoolPushed(h) ==
    /\ running[h].pc = "push"
    /\ sink' = Append(sink, [req |-> running[h].req, rawItems |-> running[h].rawItems,
                             rows |-> running[h].rows])
    /\ running' = [running EXCEPT ![h] = IdleSlot]
    /\ stats' = [stats EXCEPT !.finished = @ + 1]
    /\ UNCHANGED <<queue, cur, hasCrawler, pc, parsed, stages, normalizedRows, batch, logs,
                   outcome, call, ret, seenKeys>>

PoolNext ==
    \/ \E h \in Slots : PoolBegin(h)
    \/ \E h \in Slots, rawItems \in PoolItems : PoolParsed(h, rawItems)
    \/ \E h \in Slots : PoolPushed(h)

PoolSpec == PoolInit /\ [][PoolNext]_vars

\* ------------------------------------------------------------------------
\* Properties
\* ------------------------------------------------------------------------
\* the parser of the invocation under way, or of the last one, has returned
ParserReturned == pc = "parsed" \/ outcome \in {"probed", "handled"}

\* the handler of the last invocation ran to its end
HandlerDone == pc = "idle" /\ outcome = "handled"

KeyOf(r) == dedupeKey(r.artistName)

\* the positions of the rows that are the first of their dedup key
FirstOfKey(rows) ==
    { k \in 1..Len(rows) : \A j \in 1..(k - 1) : KeyOf(rows[j]) # KeyOf(rows[k]) }

\* the rows at the positions of idx, in their order
RowsAt(rows, idx) ==
    LET nth(i) == CHOOSE k \in idx : Cardinality({ j \in idx : j <= k }) = i
    IN  [i \in 1..Cardinality(idx) |-> rows[nth(i)]]

\* C1: the batch given to Actor.pushData holds no two rows with the same
\* dedup key, and it is the normalizer's output restricted to the first row
\* of each key, the rows unchanged and in their order
C1_BatchIsFirstRowPerKey ==
    /\ \A i, j \in 1..Len(batch) : i # j => KeyOf(batch[i]) # KeyOf(batch[j])
    /\ batch = RowsAt(normalizedRows, FirstOfKey(normalizedRows))

\* C1 witness: a batch of two rows or more was pushed, and the dedup dropped
\* a row whose artistName is written differently from the row kept
C1_Witness ==
    /\ HandlerDone
    /\ Len(batch) >= 2
    /\ \E j, k \in 1..Len(normalizedRows) :
          /\ j < k
          /\ j \in FirstOfKey(normalizedRows)
          /\ k \notin FirstOfKey(normalizedRows)
          /\ KeyOf(normalizedRows[j]) = KeyOf(normalizedRows[k])
          /\ normalizedRows[j].artistName # normalizedRows[k].artistName
          /\ j < Len(normalizedRows) - 1

\* C2, as the specification states it: once the handler is done, every
\* RawEvent with a non-null headliner has a row of role headliner in the batch
C2_EveryHeadlinerHasRow ==
    HandlerDone =>
        \A k \in 1..Len(parsed.rawItems) :
            parsed.rawItems[k].headliner # Null =>
                \E i \in 1..Len(batch) :
                    batch[i].role = "headliner" /\ batch[i].item = k

\* C2, the failing case: the handler is done, the second RawEvent has a
\* headliner, and the batch has no row made from it
C2_LaterHeadlinerDropped ==
    /\ HandlerDone
    /\ Len(parsed.rawItems) = 2
    /\ parsed.rawItems[2].headliner # Null
    /\ \E i \in 1..Len(normalizedRows) :
          normalizedRows[i].item = 2 /\ normalizedRows[i].role = "headliner"
    /\ \A i \in 1..Len(batch) : batch[i].item # 2

\* C3, as the specification states it: every row of the batch has an
\* artistName that cleanArtist does not turn into null
C3_NamesAreClean ==
    \A i \in 1..Len(batch) : cleanArtist(batch[i].artistName) # Null

\* C3, the failing case: a row of the batch carries a raw name that
\* cleanArtist turns into null
C3_RawNameEmitted ==
    /\ HandlerDone
    /\ \E i \in 1..Len(batch) :
          /\ batch[i].artistName # <<>>
          /\ cleanArtist(batch[i].artistName) = Null
          /\ \E k \in 1..Len(parsed.rawItems) :
                batch[i].artistName \in Range(parsed.rawItems[k].supportingActs)
                                          \cup {parsed.rawItems[k].headliner}

EventParserOf(key) ==
    CASE key = "parishAustin" -> "parishAustinEvent"
      [] key = "empireAtAustin" -> "empireAtAustinEvent"
      [] key = "stubbsAustin" -> "stubbsAustinEvent"
      [] OTHER -> NoVal

\* a call of parishAustin, empireAtAustin or stubbsAustin has returned, and
\* the page had an event link
LinkParserReturned ==
    /\ pc = "parsed" \/ outcome = "probed"
    /\ ParserKey(cur) \in {"parishAustin", "empireAtAustin", "stubbsAustin"}
    /\ parsed.found # <<>>

C5_NoRowsWithCrawlContext ==
    (pc = "parsed" /\ hasCrawler /\ ParserKey(cur) \in CalendarParsers)
        => parsed.rawItems = <<>>

\* C5, the failing case: continentalClubAustin, with a crawl context, found
\* its events in the month view, enqueued nothing and returned RawEvents
C5_MonthViewReturnsRows ==
    /\ pc = "parsed"
    /\ hasCrawler
    /\ ParserKey(cur) = "continentalClubAustin"
    /\ stages # <<>>
    /\ stages[Len(stages)].name = "month"
    /\ parsed.reqs = <<>>
    /\ Len(parsed.rawItems) = 2
    /\ \A k \in 1..2 : parsed.rawItems[k].headliner # Null

Chain(key) ==
    IF key = "continentalClubAustin"
    THEN <<"api", "month", "dom-timely", "dom-candidates", "dom-text">>
    ELSE <<"jsonld", "cards">>

ChainParsers == {"continentalClubAustin", "emosAustin", "scootInn"}

\* the place of a stage in its chain
PlaceIn(chain, name) == CHOOSE k \in 1..Len(chain) : chain[k] = name

\* C7, as the specification states it: once a chain parser has returned,
\* every stage that gave no row and is not the last of the chain is followed
\* by the next stage of the chain
C7_ZeroRowsFallThrough ==
    (ParserReturned /\ ParserKey(cur) \in ChainParsers) =>
        LET chain == Chain(ParserKey(cur))
        IN  \A k \in 1..Len(stages) :
                (stages[k].n = 0 /\ stages[k].name # chain[Len(chain)]) =>
                    /\ k < Len(stages)
                    /\ stages[k + 1].name = chain[PlaceIn(chain, stages[k].name) + 1]

\* C7, the failing case: the page has .timely-event nodes, none of them gives
\* a row, and continentalClubAustin returns without the two later scans
C7_ScanStopsChain ==
    /\ pc = "parsed"
    /\ ParserKey(cur) = "continentalClubAustin"
    /\ Len(stages) = 3
    /\ stages[3].name = "dom-timely"
    /\ \A k \in 1..3 : stages[k].n = 0
    /\ parsed.rawItems = <<>>

\* C8: in a chain parser a stage runs only if every stage before it gave no
\* row, stages run in the order of the chain, and a parser that returned
\* after a stage with rows returns what that stage found
C8_LaterStageOnlyAfterZero ==
    ParserKey(cur) \in ChainParsers =>
        /\ \A k \in 1..Len(stages) : \A j \in 1..(k - 1) :
              /\ stages[j].n = 0
              /\ PlaceIn(Chain(ParserKey(cur)), stages[j].name)
                     < PlaceIn(Chain(ParserKey(cur)), stages[k].name)
        /\ (ParserReturned /\ stages # <<>> /\ stages[Len(stages)].n > 0)
              => Len(parsed.found) = stages[Len(stages)].n

\* C8 witness: the month view of continentalClubAustin gave two rows after
\* the API gave none, and the parser returned without a DOM stage
C8_Witness ==
    /\ ParserReturned
    /\ ParserKey(cur) = "continentalClubAustin"
    /\ Len(stages) = 2
    /\ stages[1].n = 0
    /\ stages[2].name = "month"
    /\ stages[2].n = 2
    /\ Len(parsed.found) = 2

\* a Timely API response that is not 200, not JSON, or not of the shape
\* { data: { items: { dateKey: [items] } } } with items that are objects
BadApiResponse(resp) ==
    \/ resp.kind # "json"
    \/ resp.payload.shape # "items"
    \/ \E k \in 1..Len(resp.payload.items) :
          \/ resp.payload.items[k].day.kind # "array"
          \/ \E n \in 1..Len(resp.payload.items[k].day.items) :
                resp.payload.items[k].day.items[n].isNull

AllMalformed(scripts) ==
    scripts # <<>> /\ \A k \in 1..Len(scripts) : scripts[k].kind = "malformed"

\* C9, as the specification states it: after a bad Timely API response the
\* parser goes on to the month view and returns nothing from the API stage,
\* and after JSON-LD scripts that are all malformed the cards are scanned
C9_BadDataFallsThrough ==
    [][ /\ \A resp \in ApiResponses :
             (BadApiResponse(resp) /\ RunApiStage(resp)) => pc' = "month"
        /\ \A page \in EmosPages :
             (AllMalformed(page.scripts) /\ RunEmosAustin(page))
                 => (Len(stages') = 2 /\ stages'[2].name = "cards") ]_vars

\* C10, as the specification states it: the handler of a request whose parser
\* key is no key of venueParsers logs an error and returns, with nothing
\* parsed, pushed, enqueued or retried
C10_UnregisteredKeyIsDropped ==
    (/\ pc = "idle"
     /\ cur # NoRequest
     /\ ParserKey(cur) \notin Registry
     /\ "warning: navigation timed out" \notin logs)
        => /\ outcome = "handled"
           /\ "error: no parser found" \in logs
           /\ parsed = NothingParsed
           /\ batch = <<>>
           /\ queue = <<>>

\* C10, the failing case: the handler of the request with parser key
\* "toString" threw, and the request is back in the queue for a retry
C10_InheritedKeyRetried ==
    /\ pc = "idle"
    /\ ParserKey(cur) = "toString"
    /\ ParserKey(cur) \notin Registry
    /\ outcome = "retry"
    /\ "warning: rawItems.flatMap is not a function" \in logs
    /\ "error: no parser found" \notin logs
    /\ Len(queue) = 1
    /\ queue[1].retryCount = cur.retryCount + 1


\* ------------------------------------------------------------------------
\* C11: failures are isolated per request
\* ------------------------------------------------------------------------
\* a step in which the handling of a request ends in an error
ErrorStep == outcome' \in {"retry", "failed"} /\ vars' # vars

\* the requests other than the one that failed (cur'), which was taken from
\* the queue in this step or was under way
OthersKept ==
    IF pc = "idle"
    THEN \E i \in 1..Len(queue) :
            /\ queue[i] = cur'
            /\ Len(queue') >= Len(queue) - 1
            /\ SubSeq(queue', 1, Len(queue) - 1) = RemoveAt(queue, i)
    ELSE /\ Len(queue') >= Len(queue)
         /\ SubSeq(queue', 1, Len(queue)) = queue

\* every request added is waiting, under way, finished or failed
Accounted ==
    stats.added = Len(queue) + stats.finished + stats.failed
                  + (IF pc # "idle" /\ hasCrawler THEN 1 ELSE 0)

C12_NoEmptyBatch ==
    /\ "info: pushing rows to dataset" \in logs => batch # <<>>
    /\ (HandlerDone /\ ParserKey(cur) \in Modelled) =>
          IF parsed.rawItems = <<>>
          THEN /\ "warning: parser returned no items" \in logs
               /\ "info: pushing rows to dataset" \notin logs
          ELSE IF normalizedRows = <<>>
          THEN /\ "warning: no normalized rows" \in logs
               /\ "warning: item had no headliner or artistName" \in logs
               /\ "info: pushing rows to dataset" \notin logs
          ELSE "info: pushing rows to dataset" \in logs

\* C12 witness: the parser returned RawEvents, none of which has a headliner
\* or an artistName, and the handler ended with a warning and no push
C12_Witness ==
    /\ HandlerDone
    /\ parsed.rawItems # <<>>
    /\ normalizedRows = <<>>
    /\ "warning: no normalized rows" \in logs
    /\ "info: pushing rows to dataset" \notin logs

\* ------------------------------------------------------------------------
\* C13: role by start time in the Timely month view
\* ------------------------------------------------------------------------
\* the acts of a month view as the stage orders them: date by date, and by
\* start time within a date
ActsByDate(rows) == ByDateSorted(DateKeys(rows, <<>>), rows)
ActsOf(nodes) == ActsByDate(TimelyNodeRows(nodes, 1))

\* some act of the date of act k starts later than act k
SomeLaterAct(acts, k) ==
    \E j \in 1..Len(acts) :
        /\ acts[j].eventDateRaw = acts[k].eventDateRaw
        /\ acts[j].minutes # NoMinutes
        /\ acts[j].minutes > acts[k].minutes

\* every other act of the date of act k starts earlier than act k
IsLatestAct(acts, k) ==
    \A j \in 1..Len(acts) :
        (j # k /\ acts[j].eventDateRaw = acts[k].eventDateRaw) =>
            (acts[j].minutes # NoMinutes /\ acts[j].minutes < acts[k].minutes)

\* the row made for the act itself: the first row of RawEvent k
ActRow(rows, k) ==
    rows[CHOOSE i \in 1..Len(rows) :
            rows[i].item = k /\ \A j \in 1..(i - 1) : rows[j].item # k]

\* for every act that has a date and a start time
RolesByTime(acts, rows) ==
    \A k \in 1..Len(acts) :
        (/\ acts[k].eventDateRaw # Null
         /\ acts[k].minutes # NoMinutes
         /\ \E i \in 1..Len(rows) : rows[i].item = k) =>
            /\ SomeLaterAct(acts, k) => ActRow(rows, k).role = "support"
            /\ IsLatestAct(acts, k) => ActRow(rows, k).role = "headliner"

\* C13, as the specification states it: when the month-view stage returns
\* the rows of a page, the act with the latest start time of each date is
\* given the role headliner and every earlier act of that date the role
\* support
C13_LatestActIsHeadliner ==
    [][\A view \in MonthViews :
          (RunMonthStage(view) /\ parsed'.rawItems # <<>>) =>
              RolesByTime(ActsOf(view.nodes),
                          NormalizedRows(parsed'.rawItems, cur, ParserKey(cur)))]_vars

\* C13, the failing case: the month-view stage gave the rows, and the batch
\* pushed holds two rows of role headliner made from two acts of one date
C13_TwoHeadlinersOnOneDate ==
    /\ HandlerDone
    /\ ParserKey(cur) = "continentalClubAustin"
    /\ stages # <<>> /\ stages[Len(stages)].name = "month"
    /\ \E i, j \in 1..Len(batch) :
          /\ batch[i].item # batch[j].item
          /\ batch[i].eventDateRaw = batch[j].eventDateRaw
          /\ batch[i].eventDateRaw # Null
          /\ batch[i].role = "headliner" /\ batch[j].role = "headliner"

\* ------------------------------------------------------------------------
\* C14: parseTimeToMinutes and the order within a date
\* ------------------------------------------------------------------------
\* a is placed before b: acts without a time first, in the order of the
\* document, then the acts by ascending minutes
InTimeOrder(a, b) ==
    IF a.minutes = NoMinutes
    THEN b.minutes = NoMinutes => a.domIndex < b.domIndex
    ELSE b.minutes # NoMinutes /\ a.minutes <= b.minutes

\* C14: parseTimeToMinutes maps 'H' or 'H:MM' followed by am or pm to
\* (H mod 12) * 60 + MM, plus 720 for pm, a value of 0..1439 (12am is 0 and
\* 12pm is 720); a text with no am/pm time gives null; the sort of a date's
\* acts keeps every act and puts the acts without a time first, in the order
\* of the document, then the others by ascending minutes
C14_MinutesAndOrder ==
    /\ (call.fn = "parseTimeToMinutes" /\ ret # <<>>) =>
          IF call.arg.kind = "clock"
          THEN /\ ret[1] = (call.arg.h % 12) * 60
                           + (IF call.arg.mm = NoMinutes THEN 0 ELSE call.arg.mm)
                           + (IF call.arg.pm THEN 720 ELSE 0)
               /\ ret[1] \in 0..1439
          ELSE ret[1] = NoMinutes
    /\ (call.fn = "sort" /\ ret # <<>>) =>
          /\ Len(ret[1]) = Len(call.arg)
          /\ Range(ret[1]) = Range(call.arg)
          /\ \A i, j \in 1..Len(ret[1]) : i < j => InTimeOrder(ret[1][i], ret[1][j])

\* C14 witness: "12:30 PM" was parsed to 750 minutes
C14_Witness ==
    /\ call.fn = "parseTimeToMinutes"
    /\ call.arg.kind = "clock"
    /\ call.arg.h = 12 /\ call.arg.mm = 30 /\ call.arg.pm
    /\ ret = << 750 >>

\* ------------------------------------------------------------------------
\* C15, C16: cleanArtist
\* ------------------------------------------------------------------------
\* C15, as the specification states it: cleanArtist applied to a name that
\* cleanArtist returned gives that name again
C15_CleanIsIdempotent ==
    (call.fn = "cleanArtist" /\ Len(ret) = 2) => ret[2] = ret[1]

\* C15, the failing case: of two "@time" fragments the first pass removes
\* one and the second pass the other
C15_SecondPassChangesName ==
    /\ call.fn = "cleanArtist"
    /\ call.arg = <<"A"," ","@","7","p","m"," ","@","9","p","m">>
    /\ Len(ret) = 2
    /\ ret[1] = <<"A"," ","@","9","p","m">>
    /\ ret[2] = <<"A">>

\* C16: cleanArtist returns null or a string that is not empty and has no
\* white space, comma, semicolon or colon at its start or at its end
C16_CleanEdges ==
    call.fn = "cleanArtist" =>
        \A k \in 1..Len(ret) :
            ret[k] # Null =>
                /\ ret[k] # <<>>
                /\ ~IsEdgePunct(ret[k][1])
                /\ ~IsEdgePunct(ret[k][Len(ret[k])])

\* C16 witness: " The Band , " was cleaned to "The Band"
C16_Witness ==
    /\ call.fn = "cleanArtist"
    /\ call.arg = <<" ","T","h","e"," ","B","a","n","d"," ",","," ">>
    /\ ret # <<>>
    /\ ret[1] = <<"T","h","e"," ","B","a","n","d">>

\* ------------------------------------------------------------------------
\* C17: splitParts
\* ------------------------------------------------------------------------
\* C17, as the specification states it: no part is empty or has white space
\* at an end, and splitParts applied to a part gives that part alone
C17_PartsAreFinal ==
    call.fn = "splitParts" =>
        /\ ret # <<>> =>
              \A k \in 1..Len(ret[1]) :
                  ret[1][k] # <<>> /\ trim(ret[1][k]) = ret[1][k]
        /\ Len(ret) = 2 =>
              \A k \in 1..Len(ret[1]) : ret[2][k] = << ret[1][k] >>

\* C17, the failing case: the part "Band @8pm" of "Band @ (Inside) 8pm" is
\* split again into "Band"
C17_PartChangesWhenSplitAgain ==
    /\ call.fn = "splitParts"
    /\ call.arg = <<"B","a","n","d"," ","@"," ","(","I","n","s","i","d","e",")"," ","8","p","m">>
    /\ Len(ret) = 2
    /\ ret[1] = << <<"B","a","n","d"," ","@","8","p","m">> >>
    /\ ret[2] = << << <<"B","a","n","d">> >> >>

\* ------------------------------------------------------------------------
\* C18: comeAndTakeItEvent
\* ------------------------------------------------------------------------
Least(S) == CHOOSE n \in S : \A m \in S : n <= m

\* the positions of the lines that stop the scan
StopLines(lines) ==
    { j \in 1..Len(lines) : \/ AtCI(lines[j], 1, W_www)
                            \/ StopPattern(lines[j])
                            \/ Len(lines[j]) > MaxLineLength }

\* the lines after position a, before the first stop line after a, and at
\* most LineupCap of them
Window(lines, a) ==
    LET stops == { j \in StopLines(lines) : j > a }
        b == IF stops = {} THEN Len(lines) + 1 ELSE Least(stops)
    IN  SubSeq(lines, a + 1, IF b - 1 < a + LineupCap THEN b - 1 ELSE a + LineupCap)

\* the names of the lines of the page that count, in order, each once
NamesOf(lines) ==
    LET starts == { i \in 1..Len(lines) : IsPresentsLine(lines[i]) }
    IN  IF starts = {} THEN <<>>
        ELSE Unique(CandidateNames(Window(lines, Least(starts))), <<>>)

ExamplePage ==
    [lines |-> << <<"C","o","m","e"," ","a","n","d"," ","T","a","k","e"," ","I","t"," ","P","r","o","d","u","c","t","i","o","n","s"," ","p","r","e","s","e","n","t","s">>,
                  <<"B","a","n","d"," ","A","l","p","h","a">>,
                  <<"B","a","n","d"," ","B","e","t","a",","," ","B","a","n","d"," ","G","a","m","m","a">>,
                  <<"T","i","c","k","e","t","s"," ","$","1","0">> >>,
     heading |-> Null]

\* C18: the candidate names of comeAndTakeItEvent are those of the lines
\* after the first "presents" line and before the first stop line or the
\* cap of 8 lines, in order; the first is the headliner and the others are
\* the supports; the page of the example gives "Band Alpha" with the
\* supports "Band Beta" and "Band Gamma"
C18_LineupWindow ==
    (call.fn = "comeAndTakeItEvent" /\ ret # <<>>) =>
        /\ Len(ret[1]) = 1
        /\ NamesOf(call.arg.lines) # <<>> =>
              /\ ret[1][1].headliner = Head(NamesOf(call.arg.lines))
              /\ ret[1][1].supportingActs = Tail(NamesOf(call.arg.lines))
        /\ NamesOf(call.arg.lines) = <<>> => ret[1][1].supportingActs = <<>>
        /\ call.arg = ExamplePage =>
              /\ ret[1][1].headliner = <<"B","a","n","d"," ","A","l","p","h","a">>
              /\ ret[1][1].supportingActs = << <<"B","a","n","d"," ","B","e","t","a">>, <<"B","a","n","d"," ","G","a","m","m","a">> >>

\* C18 witness: the page with ten lines of names after the "presents" line
\* gave the first as the headliner and the next seven as the supports
C18_Witness ==
    /\ call.fn = "comeAndTakeItEvent"
    /\ Len(call.arg.lines) = 11
    /\ ret # <<>>
    /\ ret[1][1].headliner = <<"B","a","n","d"," ","1">>
    /\ Len(ret[1][1].supportingActs) = 7
    /\ ret[1][1].supportingActs[7] = <<"B","a","n","d"," ","8">>

\* ------------------------------------------------------------------------
\* C19: parishAustinEvent, empireAtAustinEvent
\* ------------------------------------------------------------------------
\* the title the parser works on: calendarTitle || headingText
TitleOf(page) == OrElse(page.calendarTitle, page.headingText)

NoDuplicates(q) == \A i, j \in 1..Len(q) : q[i] = q[j] => i = j

\* C19, as the specification states it: for a title "X w/ Y" or "X with Y"
\* the detail parsers return one RawEvent with the headliner X and with Y
\* among the supporting acts, and no supporting act is listed twice
C19_HeadingSplit ==
    (call.fn \in {"parishAustinEvent", "empireAtAustinEvent"} /\ ret # <<>>) =>
        /\ Len(ret[1]) = 1
        /\ NoDuplicates(ret[1][1].supportingActs)
        /\ \A x \in ActNames, w \in WithWords, y \in ActNames :
              TitleOf(call.arg) = XWithY(x, w, y) =>
                  /\ ret[1][1].headliner = x
                  /\ y \in Range(ret[1][1].supportingActs)

\* C19, the failing case: "Blink-182 w/ U2" gives the headliner "Blink"
\* and no supporting act
C19_NameCutAndSupportDropped ==
    /\ call.fn = "parishAustinEvent"
    /\ call.arg.calendarTitle = XWithY(<<"B","l","i","n","k","-","1","8","2">>, <<"w","/">>, <<"U","2">>)
    /\ call.arg.lines = <<>>
    /\ ret # <<>>
    /\ ret[1][1].headliner = <<"B","l","i","n","k">>
    /\ ret[1][1].supportingActs = <<>>

\* the example of the specification holds in both parsers
C19_ExampleHolds ==
    /\ call.fn \in {"parishAustinEvent", "empireAtAustinEvent"}
    /\ call.arg.calendarTitle = <<"S","a","t","s","a","n","g"," ","w","/"," ","T","i","m"," ","S","n","i","d","e","r">>
    /\ call.arg.lines = <<>>
    /\ ret # <<>>
    /\ ret[1][1].headliner = <<"S","a","t","s","a","n","g">>
    /\ ret[1][1].supportingActs = << <<"T","i","m"," ","S","n","i","d","e","r">> >>

\* ------------------------------------------------------------------------
\* C20: the Record Normalizer on a compound headliner
\* ------------------------------------------------------------------------
RolesAndNames(rows) == [k \in 1..Len(rows) |-> <<rows[k].role, rows[k].artistName>>]

\* C20, as the specification states it: a RawEvent with the headliner
\* "A w/ B, C" (or "A with B, C") gives the headliner row A and the support
\* rows B and C
C20_CompoundHeadliner ==
    (call.fn = "normalize" /\ ret # <<>>) =>
        \A a \in PlainNames, w \in WithWords, b \in PlainNames, c \in PlainNames :
            (call.arg.headliner = Compound(a, w, b, c) /\ a # b /\ a # c /\ b # c) =>
                RolesAndNames(ret[1]) =
                    << <<"headliner", a>>, <<"support", b>>, <<"support", c>> >>

\* C20, the failing case: "Satsang w/ Tim Snider, Ana Lee" gives the
\* headliner row "Satsang w"
C20_LeftoverDelimiterText ==
    /\ call.fn = "normalize"
    /\ call.arg.headliner = <<"S","a","t","s","a","n","g"," ","w","/"," ","T","i","m"," ","S","n","i","d","e","r",","," ","A","n","a"," ","L","e","e">>
    /\ ret # <<>>
    /\ RolesAndNames(ret[1]) =
           << <<"headliner", <<"S","a","t","s","a","n","g"," ","w">>>>,
              <<"support", <<"T","i","m"," ","S","n","i","d","e","r">>>>,
              <<"support", <<"A","n","a"," ","L","e","e">>>> >>

\* ------------------------------------------------------------------------
\* C21: the rows of one RawEvent
\* ------------------------------------------------------------------------
\* the names in the order they are added to the supports of an item
RECURSIVE CleanedEach(_)
CleanedEach(names) ==
    IF names = <<>> THEN <<>>
    ELSE (IF Truthy(Head(names)) THEN << CleanOrRaw(Head(names)) >> ELSE <<>>)
         \o CleanedEach(Tail(names))
Inserted(item) ==
    CleanedEach(item.supportingActs) \o CleanedEach(Rest(splitParts(item.headliner)))

FirstAt(q, x) == CHOOSE k \in 1..Len(q) : q[k] = x /\ \A j \in 1..(k - 1) : q[j] # x

\* C21, as the specification states it: the rows of one RawEvent are one
\* headliner row, the first, then support rows in the order of insertion
\* (the supporting acts, then the later parts of the headliner), and no two
\* support rows have names that are equal when case is ignored
C21_RowsOfOneEvent ==
    (call.fn = "normalize" /\ ret # <<>> /\ Truthy(call.arg.headliner)) =>
        /\ ret[1] # <<>>
        /\ ret[1][1].role = "headliner"
        /\ \A k \in 2..Len(ret[1]) :
              /\ ret[1][k].role = "support"
              /\ ret[1][k].artistName \in Range(Inserted(call.arg))
        /\ \A i, j \in 2..Len(ret[1]) :
              i < j =>
                  /\ FirstAt(Inserted(call.arg), ret[1][i].artistName)
                         < FirstAt(Inserted(call.arg), ret[1][j].artistName)
                  /\ toLowerCase(ret[1][i].artistName) # toLowerCase(ret[1][j].artistName)

\* C21, the failing case: the supporting acts "Tim Snider" and "TIM SNIDER"
\* of one RawEvent give two support rows
C21_SameNameInTwoCases ==
    /\ call.fn = "normalize"
    /\ call.arg.headliner = <<"S","a","t","s","a","n","g">>
    /\ call.arg.supportingActs = << <<"T","i","m"," ","S","n","i","d","e","r">>, <<"T","I","M"," ","S","N","I","D","E","R">> >>
    /\ ret # <<>>
    /\ RolesAndNames(ret[1]) =
           << <<"headliner", <<"S","a","t","s","a","n","g">>>>,
              <<"support", <<"T","i","m"," ","S","n","i","d","e","r">>>>,
              <<"support", <<"T","I","M"," ","S","N","I","D","E","R">>>> >>

\* ------------------------------------------------------------------------
\* C22: the dedup state of an invocation
\* ------------------------------------------------------------------------
\* the batch an invocation pushes when nothing else is handled
OwnBatch(b) == UniqueRows(NormalizedRows(b.rawItems, b.req, ParserKey(b.req)))

\* the batches pushed and those being pushed
Batches == Range(sink) \cup { running[h] : h \in { g \in Slots : running[g].pc = "push" } }

EventHrefs(anchors) ==
    { anchors[k].href : k \in { j \in 1..Len(anchors) : trim(anchors[j].text) # <<>> } }

\* C23, as the specification states it: with a crawl context and an event
\* anchor on the page, antones queues one antonesEvent request per anchor,
\* with its dialogId and calendarDate, and returns no RawEvent; it returns
\* summary RawEvents only without a crawl context
C23_QueuesOrSummarizes ==
    (call.fn = "antones" /\ ret # <<>> /\ EventHrefs(call.arg.anchors) # {}) =>
        IF call.arg.hasCrawler
        THEN /\ Len(ret[1].reqs) = Cardinality(EventHrefs(call.arg.anchors))
             /\ \A k \in 1..Len(ret[1].reqs) :
                   /\ ret[1].reqs[k].parserId = "antonesEvent"
                   /\ \E j \in 1..Len(call.arg.anchors) :
                         /\ trim(call.arg.anchors[j].text) # <<>>
                         /\ ret[1].reqs[k].dialogId = DialogId(call.arg.anchors[j].href)
                         /\ ret[1].reqs[k].calendarDate = call.arg.anchors[j].date
             /\ ret[1].rawItems = <<>>
        ELSE /\ ret[1].reqs = <<>>
             /\ Len(ret[1].rawItems) = Cardinality(EventHrefs(call.arg.anchors))

\* C23, the failing case: with a crawl context, one anchor gave one request
\* and one summary RawEvent as well
C23_QueuedAndSummarized ==
    /\ call.fn = "antones"
    /\ call.arg.hasCrawler
    /\ Len(call.arg.anchors) = 1
    /\ ret # <<>>
    /\ Len(ret[1].reqs) = 1
    /\ ret[1].reqs[1].dialogId = <<"t","w","-","e","v","e","n","t","-","d","i","a","l","o","g","-","1">>
    /\ Len(ret[1].rawItems) = 1
    /\ ret[1].rawItems[1].headliner = <<"S","m","a","l","l","p","o","o","l","s">>
    /\ ret[1].rawItems[1].supportingActs = << <<"K","e","v","i","a","n"," ","K","r","a","e","m","e","r">>, <<"T","h","e"," ","R","o","m","a","n","c","e">> >>

\* ------------------------------------------------------------------------
\* C28: continentalClubEvent
\* ------------------------------------------------------------------------
\* the names of q other than x, in order
Without(q, x) == SelectSeq(q, LAMBDA n : n # x)

\* C28, as the specification states it: with a calendarTitle the headliner
\* is the calendarTitle and the supporting acts are all the distinct
\* candidate names other than it, in order; without one the first candidate
\* is the headliner and the others are the supporting acts
C28_TitleOverridesHeadliner ==
    (call.fn = "continentalClubEvent" /\ ret # <<>>) =>
        IF Truthy(call.arg.req.calendarTitle)
        THEN /\ ret[1][1].headliner = call.arg.req.calendarTitle
             /\ ret[1][1].supportingActs =
                    Without(EventUnique(call.arg.page), call.arg.req.calendarTitle)
        ELSE EventUnique(call.arg.page) # <<>> =>
                 /\ ret[1][1].headliner = Head(EventUnique(call.arg.page))
                 /\ ret[1][1].supportingActs = Tail(EventUnique(call.arg.page))

\* C28, the failing case: the candidates "Tim Snider", "Ana Lee" and
\* "Bo Diddley" with the calendarTitle "Satsang" give the supporting acts
\* "Ana Lee" and "Bo Diddley"
C28_FirstCandidateDropped ==
    /\ call.fn = "continentalClubEvent"
    /\ call.arg.req.calendarTitle = <<"S","a","t","s","a","n","g">>
    /\ EventUnique(call.arg.page) = << <<"T","i","m"," ","S","n","i","d","e","r">>, <<"A","n","a"," ","L","e","e">>, <<"B","o"," ","D","i","d","d","l","e","y">> >>
    /\ ret # <<>>
    /\ ret[1][1].headliner = <<"S","a","t","s","a","n","g">>
    /\ ret[1][1].supportingActs = << <<"A","n","a"," ","L","e","e">>, <<"B","o"," ","D","i","d","d","l","e","y">> >>

\* ------------------------------------------------------------------------
\* C24: the crawl terminates
\* ------------------------------------------------------------------------
\* the requests that the step gave to crawler.addRequests
Enqueued == SubSeq(queue', Len(queue') - (stats'.added - stats.added) + 1, Len(queue'))

\* crawler.run has returned: no request is left or under way, and every
\* request was counted once, as handled or as failed
RunReturned ==
    /\ queue = <<>> /\ pc = "idle"
    /\ stats.finished + stats.failed = stats.added

\* C24: requests are enqueued only by the calendar parser of a start request
\* and go to detail parsers, and every run reaches the state in which no
\* request is left and each was handled or failed for good exactly once
C24_CrawlTerminates ==
    /\ [][stats'.added > stats.added =>
            /\ pc \in {"parse", "month", "dom"}
            /\ ParserKey(cur) \in CalendarParsers
            /\ cur.calendarTitle = Null
            /\ \A k \in 1..Len(Enqueued) : Enqueued[k].parserId \in DetailParsers]_vars
    /\ [][ParserKey(cur) \in DetailParsers => stats'.added = stats.added]_vars
    /\ <>RunReturned

\* C24, its case: a run with a follow-up request, a retry and a terminal
\* failure has returned
C24_Witness ==
    /\ RunReturned
    /\ stats.added >= 3 /\ stats.failed >= 1 /\ stats.finished >= 2
    /\ ParserKey(cur) \in DetailParsers
    /\ cur.retryCount = MaxRetries
    /\ outcome = "handled"

\* ------------------------------------------------------------------------
\* C25: events found by a calendar parser
\* ------------------------------------------------------------------------
\* the title and the link of an event that a parser found: a row of a
\* $$eval, or a RawEvent of the API stage
TitleOfFound(ev) == IF "title" \in DOMAIN ev THEN ev.title ELSE ev.headliner
UrlOfFound(ev) == IF "url" \in DOMAIN ev THEN ev.url ELSE ev.sourceUrl

\* the event is among the RawEvents that the parser returned
IsReturned(ev) ==
    \E j \in 1..Len(parsed.rawItems) : parsed.rawItems[j].headliner = TitleOfFound(ev)

\* a request for the detail page of the event was enqueued
IsEnqueued(ev) ==
    \E j \in 1..Len(parsed.reqs) :
        /\ parsed.reqs[j].url = UrlOfFound(ev)
        /\ parsed.reqs[j].calendarTitle = TitleOfFound(ev)

\* C25, as the specification states it: in an invocation with a crawl
\* context, each event with a title that a calendar parser found is returned
\* as a RawEvent or has a detail request
C25_NoEventLost ==
    (pc = "parsed" /\ hasCrawler /\ ParserKey(cur) \in CalendarParsers) =>
        \A k \in 1..Len(parsed.found) :
            Truthy(TitleOfFound(parsed.found[k])) =>
                IsReturned(parsed.found[k]) \/ IsEnqueued(parsed.found[k])

\* C25, the failing case: the API stage found two events, one of them
\* without custom_url and id; it enqueued the other and returned no RawEvent
C25_EventWithoutUrlLost ==
    /\ pc = "parsed" /\ hasCrawler
    /\ ParserKey(cur) = "continentalClubAustin"
    /\ Len(stages) = 1
    /\ Len(parsed.found) = 2
    /\ Truthy(parsed.found[1].headliner)
    /\ parsed.found[1].sourceUrl = cur.url
    /\ Len(parsed.reqs) = 1
    /\ parsed.reqs[1].url # cur.url
    /\ parsed.rawItems = <<>>

\* ------------------------------------------------------------------------
\* C29: the detail requests of the Timely month view
\* ------------------------------------------------------------------------
\* the .timely-event nodes that give a row and have a link
LinkedNodes(nodes) ==
    { k \in 1..Len(nodes) :
        nodes[k].hasTitle /\ trim(nodes[k].title) # <<>> /\ nodes[k].detailUrl # NoVal }

\* C29, as the specification states it: when the month-view stage returns in
\* an invocation with a crawl context, it has enqueued one request for each
\* node with a link, with the node's title and date
C29_MonthViewEnqueues ==
    [][\A view \in MonthViews :
          (hasCrawler /\ RunMonthStage(view) /\ pc' = "parsed") =>
              /\ Len(parsed'.reqs) = Cardinality(LinkedNodes(view.nodes))
              /\ \A k \in LinkedNodes(view.nodes) :
                    \E j \in 1..Len(parsed'.reqs) :
                        /\ parsed'.reqs[j].url = view.nodes[k].detailUrl
                        /\ parsed'.reqs[j].parserId = "continentalClubEvent"
                        /\ parsed'.reqs[j].calendarTitle = trim(view.nodes[k].title)
                        /\ parsed'.reqs[j].calendarDateText = OrElse(view.nodes[k].date, Null)]_vars

\* C29, the failing case: the month view showed events, the continentalClubAustin
\* invocation had a crawl context, and the stage enqueued nothing and returned
\* the rows of the view
C29_NothingEnqueued ==
    /\ pc = "parsed" /\ hasCrawler
    /\ ParserKey(cur) = "continentalClubAustin"
    /\ Len(stages) = 2 /\ stages[2].name = "month" /\ stages[2].n = 2
    /\ parsed.reqs = <<>>
    /\ queue = <<>>
    /\ Len(parsed.rawItems) = 2
    /\ stats.added = 1

\* ------------------------------------------------------------------------
\* C27: the default venues
\* ------------------------------------------------------------------------
\* C27, as the specification states it: in a run on the default venues no
\* request is dropped for want of a parser
C27_DefaultVenuesHaveParsers ==
    /\ stats.added >= Len(DefaultVenues)
    /\ "error: no parser found" \notin logs

\* C27, the failing case: the start request of the default venue "antones",
\* whose parser key is its id, was dropped by the branch if (!parser)
C27_AntonesDropped ==
    /\ cur = StartRequest(DefaultVenues[9])
    /\ cur.venueId = "antones" /\ ParserKey(cur) = "antones"
    /\ Lookup(ParserKey(cur)) = "undefined"
    /\ logs = {"error: no parser found"}
    /\ outcome = "handled"
    /\ queue = <<>>

\* ------------------------------------------------------------------------
\* C26: the parser keys of follow-up requests
\* ------------------------------------------------------------------------
\* r is the request of a venue of the input, however often it was retried
IsStartRequest(r) == \E v \in Venues : [r EXCEPT !.retryCount = 0] = StartRequest(v)

\* C26: every request given to crawler.addRequests has a parserId that is a
\* key of venueParsers, and the branch if (!parser) takes start requests only
C26_EnqueuedKeysRegistered ==
    /\ [][stats'.added > stats.added =>
            \A k \in 1..Len(Enqueued) :
                /\ Enqueued[k].parserId \in Registry
                /\ Lookup(ParserKey(Enqueued[k])) = "parser"]_vars
    /\ [][\A i \in 1..Len(queue) : HandleMissingParser(i) => IsStartRequest(queue[i])]_vars

\* C26, its case: a request that a calendar parser enqueued was handled by
\* the detail parser it names, and gave rows
C26_Witness ==
    /\ pc = "idle" /\ outcome = "handled"
    /\ ~IsStartRequest(cur)
    /\ cur.calendarTitle # Null
    /\ ParserKey(cur) \in DetailParsers
    /\ batch # <<>>
    /\ stats.added >= 2

\* ------------------------------------------------------------------------
\* C30: venueId and venueParserId
\* ------------------------------------------------------------------------
\* the venue ids of the requests that are queued or under way
IdsInFlight ==
    { queue[k].venueId : k \in 1..Len(queue) }
        \cup (IF cur = NoRequest THEN {} ELSE {cur.venueId})

RowsOfCur(rows) ==
    \A k \in 1..Len(rows) :
        rows[k].venueId = cur.venueId /\ rows[k].venueParserId = ParserKey(cur)

\* C30: a request given to crawler.addRequests has the venueId of the request
\* being handled, so no venue id appears in a crawl that its start requests
\* did not have; and the rows made and pushed in an invocation have the
\* venueId of its request and the key of its parser
C30_VenueIdIsKept ==
    /\ [][stats'.added > stats.added =>
            \A k \in 1..Len(Enqueued) : Enqueued[k].venueId = cur.venueId]_vars
    /\ [][hasCrawler' => IdsInFlight' \subseteq IdsInFlight]_vars
    /\ [](RowsOfCur(normalizedRows) /\ RowsOfCur(batch))

\* C30, its case: the rows of a detail page, pushed with the venue of the
\* calendar request and the key of the detail parser
C30_Witness ==
    /\ pc = "idle" /\ outcome = "handled" /\ hasCrawler
    /\ cur.calendarTitle # Null
    /\ cur.venueId = "empireAtAustin"
    /\ ParserKey(cur) = "empireAtAustinEvent"
    /\ Len(batch) >= 2
    /\ \A k \in 1..Len(batch) :
          batch[k].venueId = "empireAtAustin" /\ batch[k].venueParserId = "empireAtAustinEvent"
====
